---- MODULE Spec2Model ----
(***************************************************************************)
(* A model of pgdump-offline, the offline decoder of a PostgreSQL cluster  *)
(* directory: the tuple decoder, the heap reader and its visibility        *)
(* rules, the TOAST layer and the dump orchestrator.                       *)
(*                                                                         *)
(* Byte slices are sequences of numbers 0..255; a Go offset o is the       *)
(* 1-based index o + 1.  Every operation is one action: it is called from  *)
(* the idle state with inputs drawn from bounded sets, records its inputs  *)
(* in arg and its result in ret, and Return leads back to idle.            *)
(***************************************************************************)
EXTENDS Integers, Sequences, FiniteSets, TLC

VARIABLES
    files,    \* the cluster directory: relative path -> file contents
    reader,   \* a TOASTReader: its chunk cache, data directory and database
    reads,    \* the files the running operation has asked its reader for
    op,       \* the operation that ran last, "idle" between calls
    arg,      \* its inputs
    ret,      \* its result
    Debug     \* the process-wide debug toggle of the tuple decoder

vars == <<files, reader, reads, op, arg, ret, Debug>>

----------------------------------------------------------------------------
(* Bounds of the model.                                                    *)

\* longest enumerated tuple payload, in bytes
MaxData == 4
\* most columns of an enumerated schema
MaxCols == 2
\* most tuples of an enumerated heap file
MaxTuples == 2

----------------------------------------------------------------------------
(* Byte primitives.                                                        *)

Drop(s, n) == IF n >= Len(s) THEN <<>> ELSE SubSeq(s, n + 1, Len(s))

Take(s, n) == IF n >= Len(s) THEN s ELSE SubSeq(s, 1, n)

Max2(a, b) == IF a > b THEN a ELSE b

\* the set of sequences over S of length at most n
SeqsUpTo(S, n) == UNION {[1..k -> S] : k \in 0..n}

\* little-endian signed 32-bit integer at offset off, zero if out of range
i32(buf, off) ==
    IF off + 4 > Len(buf) THEN 0
    ELSE LET hi == IF buf[off + 4] >= 128 THEN buf[off + 4] - 256 ELSE buf[off + 4]
         IN buf[off + 1] + 256 * buf[off + 2] + 65536 * buf[off + 3]
            + 16777216 * hi

\* the upper 30 bits of the little-endian 32-bit word at offset 0
VarSize4B(buf) ==
    IF Len(buf) < 4 THEN 0
    ELSE (buf[1] \div 4) + 64 * buf[2] + 16384 * buf[3] + 4194304 * buf[4]

i16(buf, off) ==
    IF off + 2 > Len(buf) THEN 0
    ELSE LET u == buf[off + 1] + 256 * buf[off + 2]
         IN IF u >= 32768 THEN u - 65536 ELSE u

\* offset rounded up to a multiple of n
align(offset, n) == ((offset + n - 1) \div n) * n

\* bit number b (0 = least significant) of byte x
Bit(x, b) == (x \div (2 ^ b)) % 2

----------------------------------------------------------------------------
(* Values of a decoded row.  A Go nil interface value is NilVal.           *)

NilVal == [t |-> "nil"]

IntVal(n) == [t |-> "int", v |-> n]

BytesVal(b) == [t |-> "bytes", v |-> b]

StrVal(b) == [t |-> "string", v |-> b]

\* a nil map (no row) and a non-nil map from column names to values
NilRow == [isnil |-> TRUE]

Row(m) == [isnil |-> FALSE, m |-> m]

\* m[name] = v of a Go map: a later write to the same key replaces the value
MapPut(m, name, v) ==
    [k \in DOMAIN m \cup {name} |-> IF k = name THEN v ELSE m[k]]

EmptyMap == [k \in {} |-> NilVal]

----------------------------------------------------------------------------
(* Heap tuples and column schemas.                                         *)

\* a nil *HeapTupleData
NilTuple == [isnil |-> TRUE]

\* no null bitmap (tuple.Bitmap == nil)
NoBitmap == <<-1>>

HeapTuple(xminCommitted, xmaxCommitted, xmaxInvalid, bitmap, data) ==
    [isnil |-> FALSE,
     Header |-> [XminCommitted |-> xminCommitted,
                 XmaxCommitted |-> xmaxCommitted,
                 XmaxInvalid |-> xmaxInvalid],
     Bitmap |-> bitmap,
     Data |-> data]

\* A column of the null bitmap is null when its bit (attnum - 1) is 0; a
\* tuple without a bitmap has no null column, and a column beyond the
\* bitmap's bytes counts as null.
IsNull(tuple, attnum) ==
    IF tuple.Bitmap = NoBitmap THEN FALSE
    ELSE LET byteIdx == (attnum - 1) \div 8
             bitIdx == (attnum - 1) % 8
         IN IF byteIdx >= Len(tuple.Bitmap) THEN TRUE
            ELSE Bit(tuple.Bitmap[byteIdx + 1], bitIdx) = 0

\* A tuple is visible iff xmin is committed and xmax is invalid or uncommitted.
IsVisible(tuple) ==
    /\ tuple.Header.XminCommitted
    /\ (tuple.Header.XmaxInvalid \/ ~tuple.Header.XmaxCommitted)

Column(name, typID, length, num, alignChar) ==
    [Name |-> name, TypID |-> typID, Len |-> length, Num |-> num,
     Align |-> alignChar]

alignFromChar(c) ==
    CASE c = "c" -> 1
      [] c = "s" -> 2
      [] c = "i" -> 4
      [] c = "d" -> 8
      [] OTHER -> 0

\* the default for a fixed length rounds up to a power of two (bug)
typeAlignRoundingUp(typID, length) ==
    IF length = -1 THEN 4
    ELSE CHOOSE a \in {1, 2, 4, 8, 16, 32, 64} :
             /\ a >= length
             /\ \A b \in {1, 2, 4, 8, 16, 32, 64} : b >= length => a <= b

typeAlign(typID, length) ==
    CASE typID \in {"OidInt8", "OidFloat8", "OidTimestamp", "OidTimestampTZ",
                    "OidTime", "OidMoney", "OidPgLsn"} -> 8
      [] typID \in {"OidPoint", "OidLseg", "OidBox", "OidLine", "OidCircle"} -> 8
      [] typID \in {"OidInterval", "OidTimeTZ"} -> 8
      [] typID \in {"OidInt4", "OidOid", "OidFloat4", "OidDate", "OidXid",
                    "OidCid"} -> 4
      [] typID \in {"OidText", "OidVarchar", "OidBpchar", "OidBytea", "OidJSON",
                    "OidJSONB", "OidXML"} -> 4
      [] typID \in {"OidNumeric", "OidInet", "OidCidr", "OidPath",
                    "OidPolygon"} -> 4
      [] typID \in {"OidBit", "OidVarbit", "OidTsvector", "OidTsquery",
                    "OidJSONPath"} -> 4
      [] typID \in {"OidInt4Range", "OidInt8Range", "OidNumRange",
                    "OidDateRange", "OidTsRange", "OidTsTzRange"} -> 4
      [] typID \in {"OidInt2", "OidTid"} -> 2
      [] typID \in {"OidBool", "OidChar", "OidName", "OidUUID", "OidMacaddr",
                    "OidMacaddr8"} -> 1
      [] OTHER -> IF length = -1 THEN 4
                  ELSE IF length >= 8 THEN 8
                  ELSE IF length >= 4 THEN 4
                  ELSE IF length >= 2 THEN 2
                  ELSE 1

isShortVarlena(data) ==
    IF Len(data) = 0 THEN FALSE
    ELSE data[1] % 2 = 1 /\ data[1] # 1

\* The value of a byte slice of a given type: little-endian integers, text as
\* its bytes, an unknown type identifier as the raw bytes.
DecodeType(data, typID) ==
    CASE typID = "OidInt4" /\ Len(data) >= 4 -> IntVal(i32(data, 0))
      [] typID = "OidInt2" /\ Len(data) >= 2 -> IntVal(i16(data, 0))
      [] typID = "OidBool" /\ Len(data) >= 1 -> [t |-> "bool", v |-> data[1] # 0]
      [] typID \in {"OidText", "OidVarchar", "OidBpchar"} -> StrVal(data)
      [] OTHER -> BytesVal(data)

\* no byte slice (a nil []byte), as opposed to the empty slice <<>>
NilBytes == <<-1>>

\* read_varlena(buf) -> (payload, consumed): the external-pointer tags 0x01,
\* 0x02, 0x12 yield the 18-byte pointer record; a set low bit is a 1-byte
\* header whose upper 7 bits are the total length; otherwise a 4-byte header
\* whose upper 30 bits are the total length.  A length the buffer cannot hold
\* yields no payload.
ReadVarlena(buf) ==
    IF Len(buf) = 0 THEN [val |-> NilBytes, consumed |-> 0]
    ELSE LET first == buf[1] IN
      IF first \in {1, 2, 18}
      THEN IF Len(buf) < 18 THEN [val |-> NilBytes, consumed |-> 0]
           ELSE [val |-> Take(buf, 18), consumed |-> 18]
      ELSE IF first % 2 = 1
      THEN LET total == first \div 2 IN
           IF total < 1 \/ total > Len(buf) THEN [val |-> NilBytes, consumed |-> 0]
           ELSE [val |-> SubSeq(buf, 2, total), consumed |-> total]
      ELSE LET total == VarSize4B(buf) IN
           IF Len(buf) < 4 \/ total < 4 \/ total > Len(buf)
           THEN [val |-> NilBytes, consumed |-> 0]
           ELSE IF first % 4 = 0
           THEN [val |-> SubSeq(buf, 5, total), consumed |-> total]
           \* inline compressed: the stored payload after the 4-byte raw-size field
           ELSE IF total < 8 THEN [val |-> NilBytes, consumed |-> 0]
           ELSE [val |-> SubSeq(buf, 9, total), consumed |-> total]

RECURSIVE CStringEnd(_, _)
\* index of the first zero byte of s at or after index i, 0 if there is none
CStringEnd(s, i) ==
    IF i > Len(s) THEN 0
    ELSE IF s[i] = 0 THEN i
    ELSE CStringEnd(s, i + 1)

readValue(data, offset, typID, length) ==
    IF offset >= Len(data) THEN [val |-> NilVal, consumed |-> 0]
    ELSE LET remaining == Drop(data, offset) IN
      IF length > 0
      THEN IF Len(remaining) < length THEN [val |-> NilVal, consumed |-> 0]
           ELSE [val |-> DecodeType(Take(remaining, length), typID),
                 consumed |-> length]
      ELSE IF length = -1
      THEN LET v == ReadVarlena(remaining) IN
           IF v.val = NilBytes
           THEN [val |-> NilVal, consumed |-> Max2(v.consumed, 1)]
           ELSE [val |-> DecodeType(v.val, typID), consumed |-> v.consumed]
      ELSE LET z == CStringEnd(remaining, 1) IN
           IF z > 0 THEN [val |-> StrVal(Take(remaining, z - 1)), consumed |-> z]
           ELSE [val |-> StrVal(remaining), consumed |-> Len(remaining)]

\* the alignment DecodeTuple uses for a column at the current offset
ColAlign(data, offset, col) ==
    LET a == alignFromChar(col.Align)
        colAlign == IF a = 0 THEN typeAlign(col.TypID, col.Len) ELSE a
    IN IF col.Len = -1 /\ offset < Len(data) /\ isShortVarlena(Drop(data, offset))
       THEN 1
       ELSE colAlign

\* a null column consumes the alignment padding and advances the offset (bug)
OffsetAfterNullSkipping(offset, col) ==
    IF col.Len > 0 THEN offset + col.Len ELSE offset + 4

\* the offset after a null column: result[col.Name] = nil; continue
OffsetAfterNull(offset, col) == offset

RECURSIVE DecodeColumns(_, _, _, _, _)
\* the loop of DecodeTuple from column idx (1-based) on
DecodeColumns(tuple, columns, idx, offset, result) ==
    IF idx > Len(columns) THEN result
    ELSE LET col == columns[idx]
             num == IF col.Num = 0 THEN idx ELSE col.Num
             aligned == align(offset, ColAlign(tuple.Data, offset, col))
         IN IF IsNull(tuple, num)
            THEN DecodeColumns(tuple, columns, idx + 1,
                               OffsetAfterNull(aligned, col),
                               MapPut(result, col.Name, NilVal))
            ELSE LET r == readValue(tuple.Data, aligned, col.TypID, col.Len)
                 IN DecodeColumns(tuple, columns, idx + 1,
                                  aligned + r.consumed,
                                  MapPut(result, col.Name, r.val))

DecodeTuple(tuple, columns) ==
    IF tuple.isnil THEN NilRow
    ELSE IF Len(tuple.Data) = 0 THEN NilRow
    ELSE Row(DecodeColumns(tuple, columns, 1, 0, EmptyMap))

----------------------------------------------------------------------------
(* Heap reader.  A heap file is a sequence of pages; a page is the         *)
(* sequence of its item pointers, each live (holding a tuple) or of zero   *)
(* length.                                                                 *)

PageSize == 8192

LiveItem(tuple) == [live |-> TRUE, tuple |-> tuple]

DeadItem == [live |-> FALSE]

RECURSIVE ParsePageFrom(_, _)
ParsePageFrom(page, i) ==
    IF i > Len(page) THEN <<>>
    ELSE IF page[i].live
         THEN <<[PageOffset |-> 0, ItemOffset |-> i, Tuple |-> page[i].tuple]>>
              \o ParsePageFrom(page, i + 1)
         ELSE ParsePageFrom(page, i + 1)

\* the entries of the live item pointers of a page, zero-length items skipped
ParsePage(page) == ParsePageFrom(page, 1)

RECURSIVE ReadTuplesFrom(_, _, _)
ReadTuplesFrom(data, visibleOnly, p) ==
    IF p > Len(data) THEN <<>>
    ELSE LET off == (p - 1) * PageSize
             kept == SelectSeq(ParsePage(data[p]),
                               LAMBDA e : ~visibleOnly \/ IsVisible(e.Tuple))
         IN [i \in 1..Len(kept) |-> [kept[i] EXCEPT !.PageOffset = off]]
            \o ReadTuplesFrom(data, visibleOnly, p + 1)

ReadTuples(data, visibleOnly) == ReadTuplesFrom(data, visibleOnly, 1)

RECURSIVE DecodeEntries(_, _, _)
\* the non-nil rows of the entries from index i on
DecodeEntries(entries, columns, i) ==
    IF i > Len(entries) THEN <<>>
    ELSE LET row == DecodeTuple(entries[i].Tuple, columns)
         IN (IF row.isnil THEN <<>> ELSE <<row>>)
            \o DecodeEntries(entries, columns, i + 1)

ReadRows(data, columns, visibleOnly) ==
    DecodeEntries(ReadTuples(data, visibleOnly), columns, 1)

\* every tuple whose xmax is committed counts as deleted (bug)
IsDeletedTupleIgnoringInvalid(tuple) == tuple.Header.XmaxCommitted

\* the test of ReadRowsWithDeleted and ReadDeletedRows for a deleted tuple
IsDeletedTuple(tuple) ==
    tuple.Header.XmaxCommitted /\ ~tuple.Header.XmaxInvalid

RECURSIVE RowsWithDeletedFrom(_, _, _, _)
RowsWithDeletedFrom(entries, columns, i, acc) ==
    IF i > Len(entries) THEN acc
    ELSE LET tuple == entries[i].Tuple
             row == IF tuple.isnil THEN NilRow ELSE DecodeTuple(tuple, columns)
         IN IF tuple.isnil \/ row.isnil
            THEN RowsWithDeletedFrom(entries, columns, i + 1, acc)
            ELSE IF IsVisible(tuple)
            THEN RowsWithDeletedFrom(entries, columns, i + 1,
                     [acc EXCEPT !.visible = Append(@, row)])
            ELSE IF IsDeletedTuple(tuple)
            THEN RowsWithDeletedFrom(entries, columns, i + 1,
                     [acc EXCEPT !.deleted = Append(@, row)])
            ELSE RowsWithDeletedFrom(entries, columns, i + 1, acc)

ReadRowsWithDeleted(data, columns) ==
    RowsWithDeletedFrom(ReadTuples(data, FALSE), columns, 1,
                        [visible |-> <<>>, deleted |-> <<>>])

----------------------------------------------------------------------------
(* Inputs of the tuple decoder and the heap reader.                        *)

\* 0x00, 0x05 (a 1-byte varlena header of total length 2) and 0x39
TupleBytes == {0, 5, 57}

\* the payload 39 05 00 00 | 00 00 00 00 | D2 04 00 00 of the null-column scenario
ScenarioPayload == <<57, 5, 0, 0, 0, 0, 0, 0, 210, 4, 0, 0>>

Payloads == SeqsUpTo(TupleBytes, MaxData) \cup {ScenarioPayload}

ColumnKinds == {"int4", "text", "int2"}

KindColumn(kind, name, num) ==
    CASE kind = "int4" -> Column(name, "OidInt4", 4, num, "i")
      [] kind = "text" -> Column(name, "OidText", -1, num, "")
      [] kind = "int2" -> Column(name, "OidInt2", 2, num, "s")

ColName(i) == "c" \o ToString(i)

\* the schema of the given column kinds; withNum sets Column.Num to the
\* attribute number, otherwise it is left 0
Schema(kinds, withNum) ==
    [i \in 1..Len(kinds) |->
        KindColumn(kinds[i], ColName(i), IF withNum THEN i ELSE 0)]

ScenarioSchema == Schema(<<"int4", "text", "int4">>, TRUE)

Schemas ==
    {Schema(k, n) : k \in SeqsUpTo(ColumnKinds, MaxCols), n \in BOOLEAN}
    \cup {ScenarioSchema}

\* no bitmap, or a one-byte bitmap for up to MaxCols columns; 0b101 for the scenario
Bitmaps == {NoBitmap} \cup {<<b>> : b \in 0..(2 ^ MaxCols - 1)} \cup {<<5>>}

DecodeInputs ==
    {HeapTuple(TRUE, FALSE, TRUE, b, d) : b \in Bitmaps, d \in Payloads}
    \cup {NilTuple}

\* tuples of a heap file: every combination of the visibility bits, with an
\* empty or a four-byte payload
FileTuples ==
    {HeapTuple(a, b, c, NoBitmap, d) :
        a \in BOOLEAN, b \in BOOLEAN, c \in BOOLEAN, d \in {<<>>, <<57, 5, 0, 0>>}}

FileItems == {LiveItem(t) : t \in FileTuples} \cup {DeadItem}

\* heap files of at most MaxTuples items on one or two pages
HeapFiles ==
    UNION {{<<Take(items, k), Drop(items, k)>> : k \in 0..Len(items)}
           \cup {<<items>>} : items \in SeqsUpTo(FileItems, MaxTuples)}

HeapSchemas == {Schema(<<k>>, TRUE) : k \in ColumnKinds}

----------------------------------------------------------------------------
(* The tuple decoder and heap reader as operations.                        *)

NoFiles == [p \in {} |-> <<>>]

\* a TOAST reader without a data directory and with an empty chunk cache
NewTOASTReader == [chunks |-> [r \in {} |-> <<>>], dataDir |-> "", dbOID |-> 0]

Idle == op = "idle"

\* a call records the operation, its inputs and its result
Called(name, a, r) ==
    /\ op' = name
    /\ arg' = a
    /\ ret' = r
    /\ UNCHANGED Debug

Return ==
    /\ ~Idle
    /\ op' = "idle"
    /\ arg' = <<>>
    /\ ret' = <<>>
    /\ reads' = {}
    /\ UNCHANGED <<files, reader, Debug>>

DecodeTupleCall ==
    /\ Idle
    /\ \E tuple \in DecodeInputs, columns \in Schemas :
        Called("DecodeTuple", [tuple |-> tuple, columns |-> columns],
               DecodeTuple(tuple, columns))
    /\ reads' = {}
    /\ UNCHANGED <<files, reader>>

ReadRowsCall ==
    /\ Idle
    /\ \E data \in HeapFiles, columns \in HeapSchemas, visibleOnly \in BOOLEAN :
        Called("ReadRows",
               [data |-> data, columns |-> columns, visibleOnly |-> visibleOnly],
               ReadRows(data, columns, visibleOnly))
    /\ reads' = {}
    /\ UNCHANGED <<files, reader>>

ReadRowsWithDeletedCall ==
    /\ Idle
    /\ \E data \in HeapFiles, columns \in HeapSchemas :
        Called("ReadRowsWithDeleted", [data |-> data, columns |-> columns],
               ReadRowsWithDeleted(data, columns))
    /\ reads' = {}
    /\ UNCHANGED <<files, reader>>

InitTuple ==
    /\ files = NoFiles
    /\ reader = NewTOASTReader
    /\ reads = {}
    /\ op = "idle"
    /\ Debug = FALSE
    /\ arg = <<>>
    /\ ret = <<>>

NextTuple ==
    \/ DecodeTupleCall
    \/ ReadRowsCall
    \/ ReadRowsWithDeletedCall
    \/ Return

SpecTuple == InitTuple /\ [][NextTuple]_vars

----------------------------------------------------------------------------
(* Properties of the tuple decoder and the heap reader.                    *)

\* the attribute number DecodeTuple uses for column idx of a schema
AttNum(columns, idx) == IF columns[idx].Num = 0 THEN idx ELSE columns[idx].Num

\* the null-bitmap bit of an attribute is 0
BitIsZero(tuple, attnum) ==
    /\ tuple.Bitmap # NoBitmap
    /\ (attnum - 1) \div 8 < Len(tuple.Bitmap)
    /\ Bit(tuple.Bitmap[((attnum - 1) \div 8) + 1], (attnum - 1) % 8) = 0

\* C2: in every row DecodeTuple returns, a column is null exactly when its
\* null-bitmap bit (attnum - 1) is 0; every other column, and every column of
\* a tuple without a bitmap, has a decoded non-null value.
C2_NullExactlyWhereBitZero ==
    (op = "DecodeTuple" /\ ~arg.tuple.isnil /\ ~ret.isnil) =>
        \A i \in 1..Len(arg.columns) :
            (ret.m[arg.columns[i].Name] = NilVal)
                <=> BitIsZero(arg.tuple, AttNum(arg.columns, i))

ScenarioCall ==
    /\ op = "DecodeTuple"
    /\ ~arg.tuple.isnil
    /\ arg.columns = ScenarioSchema
    /\ arg.tuple.Bitmap = <<5>>
    /\ arg.tuple.Data = ScenarioPayload

\* C3 as stated: the scenario [int4, text, int4], bitmap 0b101, 12-byte payload
\* decodes to {c1: 1337, c2: null, c3: 1234}, the third column read at offset 8.
C3_ScenarioReadsThirdAtOffset8 ==
    ScenarioCall =>
        ret = Row([c \in {"c1", "c2", "c3"} |->
                    CASE c = "c1" -> IntVal(1337)
                      [] c = "c2" -> NilVal
                      [] c = "c3" -> IntVal(1234)])

\* C3 as amended: the null second column consumes no payload bytes, so the
\* third column is read at offset 4 and the row is {c1: 1337, c2: null, c3: 0}.
C3_ScenarioReadsThirdAtOffset4 ==
    ScenarioCall =>
        ret = Row([c \in {"c1", "c2", "c3"} |->
                    CASE c = "c1" -> IntVal(1337)
                      [] c = "c2" -> NilVal
                      [] c = "c3" -> DecodeType(SubSeq(ScenarioPayload, 5, 8),
                                                "OidInt4")])

C3_Witness == ScenarioCall /\ ret.m["c3"] = IntVal(0)

\* C4: DecodeTuple of a non-nil tuple with an empty payload returns an empty
\* row rather than nil, so ReadRows keeps one row for every tuple it reads.
C4_EmptyPayloadGivesEmptyRow ==
    /\ (op = "DecodeTuple" /\ ~arg.tuple.isnil /\ Len(arg.tuple.Data) = 0)
          => ret = Row(EmptyMap)
    /\ op = "ReadRows"
          => Len(ret) = Len(ReadTuples(arg.data, arg.visibleOnly))

\* the visibility rule as the claim states it
ClaimVisible(e) ==
    /\ e.Tuple.Header.XminCommitted
    /\ (e.Tuple.Header.XmaxInvalid \/ ~e.Tuple.Header.XmaxCommitted)

ClaimDeleted(e) ==
    e.Tuple.Header.XmaxCommitted /\ ~e.Tuple.Header.XmaxInvalid

\* C8: ReadRowsWithDeleted returns as visible the rows of exactly the visible
\* decodable tuples and as deleted the rows of exactly the decodable tuples
\* whose xmax is committed and not invalid, each in file order; no row is in
\* both lists, and the visible rows are those of ReadRows(visible_only = true).
C8_VisibleAndDeletedPartition ==
    op = "ReadRowsWithDeleted" =>
        LET all == ReadTuples(arg.data, FALSE)
            decodable == DecodeEntries(all, arg.columns, 1)
        IN /\ ret.visible =
                 DecodeEntries(SelectSeq(all, ClaimVisible), arg.columns, 1)
           /\ ret.deleted =
                 DecodeEntries(SelectSeq(all, ClaimDeleted), arg.columns, 1)
           /\ Len(ret.visible) + Len(ret.deleted) <= Len(decodable)
           /\ ret.visible = ReadRows(arg.data, arg.columns, TRUE)

\* a file with a visible row and a deleted row
C8_Witness ==
    /\ op = "ReadRowsWithDeleted"
    /\ Len(ret.visible) >= 1
    /\ Len(ret.deleted) >= 1

----------------------------------------------------------------------------
(* The TOAST layer: chunk reassembly and the decompressors.                *)

\* most chunks of an enumerated chunk list
MaxChunks == 2
\* largest enumerated raw size of a pointer
MaxRawSize == 4

TOASTChunk(id, seq, data) == [ChunkID |-> id, ChunkSeq |-> seq, Data |-> data]

\* a nil *TOASTPointer
NilPtr == [isnil |-> TRUE]

TOASTPointer(rawSize, extSize, valueID, toastRelID, isCompressed, method) ==
    [isnil |-> FALSE, RawSize |-> rawSize, ExtSize |-> extSize,
     ValueID |-> valueID, ToastRelID |-> toastRelID,
     IsCompressed |-> isCompressed, CompressionMethod |-> method]

ToastCompressionLZ4 == 1

\* the result of a decompressor: an error, or the bytes
DecompressError == [err |-> TRUE, out |-> <<>>]

Decompressed(out) == [err |-> FALSE, out |-> out]

RECURSIVE CopyMatch(_, _, _, _, _, _)
\* for i := 0; i < length && len(result) < rawSize; i++ {
\*     result = append(result, result[start+i%offset]) }
CopyMatch(result, start, offset, i, length, rawSize) ==
    IF i < length /\ Len(result) < rawSize
    THEN CopyMatch(Append(result, result[start + (i % offset) + 1]),
                   start, offset, i + 1, length, rawSize)
    ELSE result

RECURSIVE PGLZItems(_, _, _, _, _, _)
\* the inner loop of decompressPGLZ over the 8 items of a control byte
PGLZItems(data, rawSize, ctrl, bit, pos, result) ==
    IF ~(bit < 8 /\ pos < Len(data) /\ Len(result) < rawSize)
    THEN [pos |-> pos, result |-> result]
    ELSE IF Bit(ctrl, bit) # 0
    THEN IF pos + 1 >= Len(data)
         THEN [pos |-> pos, result |-> result]
         ELSE LET b1 == data[pos + 1]
                  b2 == data[pos + 2]
                  offset == b1 + (b2 \div 16) * 256
                  length == (b2 % 16) + 3
              IN IF offset = 0 \/ offset > Len(result)
                 THEN PGLZItems(data, rawSize, ctrl, bit + 1, pos + 2, result)
                 ELSE PGLZItems(data, rawSize, ctrl, bit + 1, pos + 2,
                          CopyMatch(result, Len(result) - offset, offset, 0,
                                    length, rawSize))
    ELSE PGLZItems(data, rawSize, ctrl, bit + 1, pos + 1,
                   Append(result, data[pos + 1]))

RECURSIVE PGLZLoop(_, _, _, _)
PGLZLoop(data, rawSize, pos, result) ==
    IF pos < Len(data) /\ Len(result) < rawSize
    THEN LET r == PGLZItems(data, rawSize, data[pos + 1], 0, pos + 1, result)
         IN PGLZLoop(data, rawSize, r.pos, r.result)
    ELSE result

decompressPGLZ(data, rawSize) ==
    IF Len(data) < 4 THEN DecompressError
    ELSE Decompressed(PGLZLoop(data, rawSize, 0, <<>>))

RECURSIVE LZ4Length(_, _, _)
\* the length extension bytes: add bytes until one is not 255
LZ4Length(data, pos, length) ==
    IF pos < Len(data)
    THEN LET extra == data[pos + 1]
         IN IF extra # 255 THEN [pos |-> pos + 1, length |-> length + extra]
            ELSE LZ4Length(data, pos + 1, length + extra)
    ELSE [pos |-> pos, length |-> length]

RECURSIVE LZ4Loop(_, _, _, _)
LZ4Loop(data, rawSize, pos0, result0) ==
    IF ~(pos0 < Len(data) /\ Len(result0) < rawSize) THEN Decompressed(result0)
    ELSE
    LET token == data[pos0 + 1]
        lit == IF token \div 16 = 15 THEN LZ4Length(data, pos0 + 1, 15)
               ELSE [pos |-> pos0 + 1, length |-> token \div 16]
        literalLen == IF lit.pos + lit.length > Len(data)
                      THEN Len(data) - lit.pos ELSE lit.length
        result1 == result0 \o SubSeq(data, lit.pos + 1, lit.pos + literalLen)
        pos1 == lit.pos + literalLen
    IN IF pos1 >= Len(data) \/ Len(result1) >= rawSize THEN Decompressed(result1)
       ELSE IF pos1 + 2 > Len(data) THEN Decompressed(result1)
       ELSE LET offset == data[pos1 + 1] + 256 * data[pos1 + 2]
                mat == IF (token % 16) + 4 = 19 THEN LZ4Length(data, pos1 + 2, 19)
                       ELSE [pos |-> pos1 + 2, length |-> (token % 16) + 4]
            IN IF offset = 0 THEN DecompressError
               ELSE IF offset > Len(result1) THEN DecompressError
               ELSE LZ4Loop(data, rawSize, mat.pos,
                            CopyMatch(result1, Len(result1) - offset, offset, 0,
                                      mat.length, rawSize))

decompressLZ4(data, rawSize) ==
    IF Len(data) < 1 THEN DecompressError
    ELSE LZ4Loop(data, rawSize, 0, <<>>)

\* zlib.NewReader accepts a stream whose 2-byte header names deflate with a
\* window of at most 32K, passes the header check and asks for no dictionary
ZlibHeaderOK(data) ==
    /\ Len(data) >= 2
    /\ data[1] % 16 = 8
    /\ data[1] \div 16 <= 7
    /\ (data[1] * 256 + data[2]) % 31 = 0
    /\ Bit(data[2], 5) = 0

\* the outputs considered for a deflate body
InflateOutputs == {<<>>, <<65>>}

\* what the zlib fallback can yield: an error, or, for a stream with a valid
\* header, whatever the deflate body inflates to
ZlibResults(data) ==
    IF ZlibHeaderOK(data)
    THEN {DecompressError} \cup {Decompressed(o) : o \in InflateOutputs}
    ELSE {DecompressError}

\* the chunks of a value, in list order
FilterChunks(chunks, valueID) ==
    SelectSeq(chunks, LAMBDA c : c.ChunkID = valueID)

\* the chunks are left in list order (bug)
InListOrder(valueChunks) == {valueChunks}

\* sort.Slice by ChunkSeq: any order of the chunks with ChunkSeq ascending
\* (the sort is not stable, chunks of equal ChunkSeq come in any order)
SortByChunkSeq(valueChunks) ==
    {[i \in 1..Len(valueChunks) |-> valueChunks[p[i]]] :
        p \in {q \in Permutations(1..Len(valueChunks)) :
                 \A i, j \in 1..Len(valueChunks) :
                    i < j => valueChunks[q[i]].ChunkSeq <= valueChunks[q[j]].ChunkSeq}}

RECURSIVE ConcatChunks(_, _)
ConcatChunks(valueChunks, i) ==
    IF i > Len(valueChunks) THEN <<>>
    ELSE valueChunks[i].Data \o ConcatChunks(valueChunks, i + 1)

\* the results of the "decompress if needed" step for the concatenated bytes
DecompressIfNeeded(data, ptr) ==
    IF ~ptr.isnil /\ ptr.IsCompressed /\ Len(data) > 0
    THEN LET lz4 == decompressLZ4(data, ptr.RawSize)
             pglz == decompressPGLZ(data, ptr.RawSize)
         IN IF ptr.CompressionMethod = ToastCompressionLZ4 /\ ~lz4.err
            THEN {lz4.out}
            ELSE IF ~pglz.err /\ Len(pglz.out) > 0
            THEN {pglz.out}
            ELSE {IF z.err THEN data ELSE z.out : z \in ZlibResults(data)}
    ELSE {data}

\* the values ReassembleTOAST can return
ReassembleTOAST(chunks, valueID, ptr) ==
    LET valueChunks == FilterChunks(chunks, valueID)
    IN IF Len(valueChunks) = 0 THEN {NilBytes}
       ELSE UNION {DecompressIfNeeded(ConcatChunks(sorted, 1), ptr) :
                      sorted \in SortByChunkSeq(valueChunks)}

----------------------------------------------------------------------------
(* The TOAST reassembly as an operation.                                   *)

\* "A"; a pglz control byte 0x01 with the low byte of a match; the high
\* byte of the match with a literal "A"
ChunkPayloads == {<<65>>, <<1, 1>>, <<0, 65>>}

\* chunk ids of the enumerated chunks; the calls resolve value 42
ChunkIDs == {42, 43}

ChunkLists ==
    SeqsUpTo({TOASTChunk(id, seq, d) :
                 id \in ChunkIDs, seq \in 0..(MaxChunks - 1), d \in ChunkPayloads},
             MaxChunks)

Pointers ==
    {TOASTPointer(raw, raw, 42, 16500, c, m) :
        raw \in 0..MaxRawSize, c \in BOOLEAN, m \in {0, ToastCompressionLZ4}}

ReassembleTOASTCall ==
    /\ Idle
    /\ \E chunks \in ChunkLists, ptr \in Pointers \cup {NilPtr} :
        \E r \in ReassembleTOAST(chunks, 42, ptr) :
            Called("ReassembleTOAST",
                   [chunks |-> chunks, valueID |-> 42, ptr |-> ptr],
                   r)
    /\ reads' = {}
    /\ UNCHANGED <<files, reader>>

InitToast ==
    /\ files = NoFiles
    /\ reader = NewTOASTReader
    /\ reads = {}
    /\ op = "idle"
    /\ Debug = FALSE
    /\ arg = <<>>
    /\ ret = <<>>

NextToast ==
    \/ ReassembleTOASTCall
    \/ Return

SpecToast == InitToast /\ [][NextToast]_vars

----------------------------------------------------------------------------
(* Properties of the TOAST reassembly.                                     *)

\* the bytes of a result: a nil slice holds no bytes
BytesOf(r) == IF r = NilBytes THEN <<>> ELSE r

Uncompressed(ptr) == ptr.isnil \/ ~ptr.IsCompressed

\* the positions of the chunks of a value
ChunksOf(chunks, valueID) ==
    {i \in 1..Len(chunks) : chunks[i].ChunkID = valueID}

DistinctSeqs(chunks, S) ==
    \A i, j \in S : i # j => chunks[i].ChunkSeq # chunks[j].ChunkSeq

RECURSIVE AscendingConcat(_, _)
\* the data of the chunks at positions S, lowest chunk_seq first
AscendingConcat(chunks, S) ==
    IF S = {} THEN <<>>
    ELSE LET m == CHOOSE i \in S : \A j \in S : chunks[i].ChunkSeq <= chunks[j].ChunkSeq
         IN chunks[m].Data \o AscendingConcat(chunks, S \ {m})

Permuted(chunks) ==
    {[i \in 1..Len(chunks) |-> chunks[p[i]]] : p \in Permutations(1..Len(chunks))}

\* C5: for an uncompressed value whose chunks have pairwise distinct
\* chunk_seq, ReassembleTOAST returns the data of exactly the chunks with
\* chunk_id = value_id in ascending chunk_seq order; every permutation of the
\* chunk list gives the same result and chunks of other values add nothing.
C5_ConcatInSeqOrder ==
    (/\ op = "ReassembleTOAST"
     /\ Uncompressed(arg.ptr)
     /\ DistinctSeqs(arg.chunks, ChunksOf(arg.chunks, arg.valueID))) =>
        /\ BytesOf(ret) =
              AscendingConcat(arg.chunks, ChunksOf(arg.chunks, arg.valueID))
        /\ \A shuffled \in Permuted(arg.chunks) :
              ReassembleTOAST(shuffled, arg.valueID, arg.ptr) = {ret}
        /\ ReassembleTOAST(FilterChunks(arg.chunks, arg.valueID), arg.valueID,
                           arg.ptr) = {ret}

\* two chunks of the value given last chunk first
C5_Witness ==
    /\ op = "ReassembleTOAST"
    /\ Uncompressed(arg.ptr)
    /\ Len(arg.chunks) = 2
    /\ arg.chunks[1].ChunkID = arg.valueID
    /\ arg.chunks[2].ChunkID = arg.valueID
    /\ arg.chunks[1].ChunkSeq > arg.chunks[2].ChunkSeq
    /\ ret = arg.chunks[2].Data \o arg.chunks[1].Data

\* C6: the value resolved for a pointer never has more than raw_size bytes,
\* whether the chunks are compressed or not.
C6_TruncatedToRawSize ==
    (op = "ReassembleTOAST" /\ ~arg.ptr.isnil) =>
        Len(BytesOf(ret)) <= arg.ptr.RawSize

\* no codec the pointer's method selects yields the raw_size bytes of the
\* original value from these bytes
Undecodable(data, ptr) ==
    /\ (ptr.CompressionMethod = ToastCompressionLZ4) =>
          LET lz4 == decompressLZ4(data, ptr.RawSize)
          IN lz4.err \/ Len(lz4.out) # ptr.RawSize
    /\ LET pglz == decompressPGLZ(data, ptr.RawSize)
       IN pglz.err \/ Len(pglz.out) # ptr.RawSize
    /\ ~ZlibHeaderOK(data)

\* C7: when the pointer is marked compressed and the concatenated chunk bytes
\* cannot be decompressed into the original value, ReassembleTOAST returns the
\* concatenated bytes unchanged.
C7_FailedDecompressionReturnsRaw ==
    (/\ op = "ReassembleTOAST"
     /\ ~arg.ptr.isnil
     /\ arg.ptr.IsCompressed
     /\ DistinctSeqs(arg.chunks, ChunksOf(arg.chunks, arg.valueID))
     /\ ChunksOf(arg.chunks, arg.valueID) # {}
     /\ Undecodable(AscendingConcat(arg.chunks, ChunksOf(arg.chunks, arg.valueID)),
                    arg.ptr)) =>
        ret = AscendingConcat(arg.chunks, ChunksOf(arg.chunks, arg.valueID))

----------------------------------------------------------------------------
(* Strings the code inspects are sequences of one-character strings.       *)

UpperCase == <<"A", "B", "C", "D", "E", "F", "G", "H", "I", "J", "K", "L", "M",
               "N", "O", "P", "Q", "R", "S", "T", "U", "V", "W", "X", "Y", "Z">>

LowerCase == <<"a", "b", "c", "d", "e", "f", "g", "h", "i", "j", "k", "l", "m",
               "n", "o", "p", "q", "r", "s", "t", "u", "v", "w", "x", "y", "z">>

\* strings.ToLower
ToLower(str) ==
    [i \in 1..Len(str) |->
        IF \E k \in 1..Len(UpperCase) : UpperCase[k] = str[i]
        THEN LowerCase[CHOOSE k \in 1..Len(UpperCase) : UpperCase[k] = str[i]]
        ELSE str[i]]

\* strings.HasPrefix
HasPrefix(str, prefix) ==
    Len(str) >= Len(prefix) /\ SubSeq(str, 1, Len(prefix)) = prefix

\* strings.Contains
Contains(str, substr) ==
    \E i \in 0..(Len(str) - Len(substr)) :
        SubSeq(str, i + 1, i + Len(substr)) = substr

----------------------------------------------------------------------------
(* The dump orchestrator.                                                  *)

\* most relations of an enumerated relation catalog
MaxRels == 2

Options(databaseFilter, tableFilter, listOnly, skipSystemTables) ==
    [isnil |-> FALSE, DatabaseFilter |-> databaseFilter,
     TableFilter |-> tableFilter, ListOnly |-> listOnly,
     SkipSystemTables |-> skipSystemTables]

\* a nil *Options
NilOptions == [isnil |-> TRUE]

\* if opts == nil { opts = &Options{SkipSystemTables: true} }
OptionsOrDefault(opts) ==
    IF opts.isnil THEN Options(<<>>, <<>>, FALSE, TRUE) ELSE opts

TableInfo(oid, name, filenode, kind) ==
    [OID |-> oid, Name |-> name, Filenode |-> filenode, Kind |-> kind]

AttrInfo(name, typID, length, num) ==
    [Name |-> name, TypID |-> typID, Len |-> length, Num |-> num]

\* the result of a file read: an error, or the contents
ReadError == [err |-> TRUE]

ReadOK(data) == [err |-> FALSE, data |-> data]

\* the relations of a relation catalog file by filenode, rows of OID 0 dropped
ParsePGClass(classData) ==
    LET rows == {classData.rows[i] : i \in 1..Len(classData.rows)}
        kept == {r \in rows : r.OID # 0}
    IN [f \in {r.Filenode : r \in kept} |-> CHOOSE r \in kept : r.Filenode = f]

\* the attributes of an attribute catalog file by relation OID
ParsePGAttribute(attrData) ==
    [oid \in DOMAIN attrData.attrs |-> attrData.attrs[oid]]

\* the name of a type identifier
TypeName(typID) ==
    CASE typID = "OidInt4" -> "int4"
      [] typID = "OidInt2" -> "int2"
      [] typID = "OidText" -> "text"
      [] OTHER -> "unknown"

\* the table filter compares the names as written (bug)
NameMatchesFilterCaseSensitive(name, tableFilter) ==
    tableFilter = <<>> \/ Contains(name, tableFilter)

\* the table filter of DumpDatabaseFromFiles
NameMatchesFilter(name, tableFilter) ==
    tableFilter = <<>> \/ Contains(ToLower(name), ToLower(tableFilter))

\* the three filters of DumpDatabaseFromFiles
PassesFilters(tableInfo, opts) ==
    /\ ~(tableInfo.Kind # "r" /\ tableInfo.Kind # "")
    /\ ~(opts.SkipSystemTables /\ HasPrefix(tableInfo.Name, <<"p", "g", "_">>))
    /\ NameMatchesFilter(tableInfo.Name, opts.TableFilter)

dumpTableFromReader(filenode, tableInfo, attributes, tableReader, opts) ==
    LET attrs == IF tableInfo.OID \in DOMAIN attributes
                 THEN attributes[tableInfo.OID] ELSE <<>>
        result == [OID |-> tableInfo.OID, Name |-> tableInfo.Name,
                   Filenode |-> filenode, Kind |-> tableInfo.Kind,
                   Columns |-> [i \in 1..Len(attrs) |->
                                   [Name |-> attrs[i].Name,
                                    Type |-> TypeName(attrs[i].TypID),
                                    TypID |-> attrs[i].TypID]],
                   Rows |-> <<>>, RowCount |-> 0]
        read == tableReader[filenode]
        columns == [i \in 1..Len(attrs) |->
                       Column(attrs[i].Name, attrs[i].TypID, attrs[i].Len,
                              attrs[i].Num, "")]
    IN IF opts.ListOnly THEN result
       ELSE IF read.err THEN result
       ELSE LET rows == ReadRows(read.data, columns, TRUE)
            IN [result EXCEPT !.Rows = rows, !.RowCount = Len(rows)]

\* the filenodes dumpTableFromReader passes to tableReader whatever list_only
\* says (bug)
tableReaderCallsIgnoringListOnly(filenode, opts) == {filenode}

\* the filenodes dumpTableFromReader passes to tableReader
tableReaderCalls(filenode, opts) ==
    IF opts.ListOnly THEN {} ELSE {filenode}

\* the filenodes DumpDatabaseFromFiles passes to tableReader
DumpDatabaseFromFilesReads(classData, opts0) ==
    LET opts == OptionsOrDefault(opts0)
        tables == ParsePGClass(classData)
    IN UNION {tableReaderCalls(f, opts) :
                 f \in {g \in DOMAIN tables : PassesFilters(tables[g], opts)}}

\* The tables of the result are appended in the iteration order of a Go map,
\* which is unspecified: the model keeps the set of tables.
DumpDatabaseFromFiles(classData, attrData, tableReader, opts0) ==
    LET opts == OptionsOrDefault(opts0)
        tables == ParsePGClass(classData)
        attributes == ParsePGAttribute(attrData)
    IN [OID |-> 0, Name |-> <<>>,
        Tables |-> {dumpTableFromReader(f, tables[f], attributes, tableReader, opts) :
                       f \in {g \in DOMAIN tables : PassesFilters(tables[g], opts)}}]

----------------------------------------------------------------------------
(* Inputs of DumpDatabaseFromFiles.                                        *)

RelNames == {<<"u", "s">>, <<"U", "s">>, <<"p", "g", "_", "a">>, <<"x", "p", "g", "_">>}

\* ordinary table, kind not recorded, index
RelKinds == {"r", "", "i"}

TableFilters == {<<>>, <<"u", "s">>, <<"P", "G">>}


\* a heap file with one visible row and one deleted row
TwoRowHeap ==
    <<<<LiveItem(HeapTuple(TRUE, FALSE, TRUE, NoBitmap, <<57, 5, 0, 0>>)),
        LiveItem(HeapTuple(TRUE, TRUE, FALSE, NoBitmap, <<5, 0, 0, 0>>))>>>>

IdAttrs == <<AttrInfo("id", "OidInt4", 4, 1)>>

\* relation catalogs of at most MaxRels relations: relation i has filenode
\* 16384 + i and OID 16484 + i
ClassFiles ==
    {[kind |-> "pg_class",
      rows |-> [i \in 1..Len(rels) |->
                   TableInfo(16484 + i, rels[i].name,
                             16384 + i, rels[i].kind)],
      readable |-> [i \in 1..Len(rels) |-> rels[i].readable]] :
        rels \in SeqsUpTo([name : RelNames, kind : RelKinds, readable : BOOLEAN],
                          MaxRels)}

AttrFileFor(classData) ==
    [kind |-> "pg_attribute",
     attrs |-> [oid \in {classData.rows[i].OID : i \in 1..Len(classData.rows)}
                  |-> IdAttrs]]

TableReaderFor(classData) ==
    [f \in {classData.rows[i].Filenode : i \in 1..Len(classData.rows)} |->
        IF classData.readable[f - 16384] THEN ReadOK(TwoRowHeap)
        ELSE ReadError]

DumpOptions ==
    {Options(<<>>, f, l, k) : f \in TableFilters, l \in BOOLEAN, k \in BOOLEAN}
    \cup {NilOptions}

DumpDatabaseFromFilesCall ==
    /\ Idle
    /\ \E classData \in ClassFiles, opts \in DumpOptions :
        /\ Called("DumpDatabaseFromFiles",
               [classData |-> classData, opts |-> opts],
               DumpDatabaseFromFiles(classData, AttrFileFor(classData),
                                     TableReaderFor(classData), opts))
        /\ reads' = DumpDatabaseFromFilesReads(classData, opts)
    /\ UNCHANGED <<files, reader>>

InitDump ==
    /\ files = NoFiles
    /\ reader = NewTOASTReader
    /\ reads = {}
    /\ op = "idle"
    /\ Debug = FALSE
    /\ arg = <<>>
    /\ ret = <<>>

NextDump ==
    \/ DumpDatabaseFromFilesCall
    \/ Return

SpecDump == InitDump /\ [][NextDump]_vars

----------------------------------------------------------------------------
(* Properties of DumpDatabaseFromFiles.                                    *)

\* the name contains the filter, letter case ignored
ContainsIgnoringCase(name, tableFilter) ==
    \E i \in 0..(Len(name) - Len(tableFilter)) :
        \A k \in 1..Len(tableFilter) :
            ToLower(<<name[i + k]>>) = ToLower(<<tableFilter[k]>>)

StartsWithPg(name) ==
    Len(name) >= 3 /\ name[1] = "p" /\ name[2] = "g" /\ name[3] = "_"

InResult(filenode) == \E t \in ret.Tables : t.Filenode = filenode

\* the relations of the catalog, as the orchestrator sees them
CatalogOf(classData) == ParsePGClass(classData)

FromCatalog(t, catalog) ==
    /\ t.Filenode \in DOMAIN catalog
    /\ t.OID = catalog[t.Filenode].OID
    /\ t.Name = catalog[t.Filenode].Name

\* C10 as stated: a relation of the catalog is in the result iff its kind is
\* ordinary table, its name contains table_filter (case-insensitively) when
\* that is non-empty, and its name does not start with "pg_" when
\* skip_system_tables is set.
C10_IncludedIffOrdinaryAndFiltersPass ==
    op = "DumpDatabaseFromFiles" =>
        LET opts == OptionsOrDefault(arg.opts)
            catalog == CatalogOf(arg.classData)
        IN /\ \A f \in DOMAIN catalog :
                 InResult(f) <=>
                    /\ catalog[f].Kind = "r"
                    /\ (opts.TableFilter # <<>> =>
                           ContainsIgnoringCase(catalog[f].Name, opts.TableFilter))
                    /\ (opts.SkipSystemTables => ~StartsWithPg(catalog[f].Name))
           /\ \A t \in ret.Tables : FromCatalog(t, catalog)

\* C10 as amended: the kind filter also passes a relation whose kind is
\* empty (not recorded); otherwise as stated.
C10_IncludedIffKindAndFiltersPass ==
    op = "DumpDatabaseFromFiles" =>
        LET opts == OptionsOrDefault(arg.opts)
            catalog == CatalogOf(arg.classData)
        IN /\ \A f \in DOMAIN catalog :
                 InResult(f) <=>
                    /\ catalog[f].Kind \in {"r", ""}
                    /\ (opts.TableFilter # <<>> =>
                           ContainsIgnoringCase(catalog[f].Name, opts.TableFilter))
                    /\ (opts.SkipSystemTables => ~StartsWithPg(catalog[f].Name))
           /\ \A t \in ret.Tables : FromCatalog(t, catalog)

\* a catalog of two relations of which the filters pass one and drop one,
\* the name matching the filter only when case is ignored
C10_Witness ==
    /\ op = "DumpDatabaseFromFiles"
    /\ ~arg.opts.isnil
    /\ arg.opts.TableFilter = <<"u", "s">>
    /\ Cardinality(DOMAIN CatalogOf(arg.classData)) = 2
    /\ Cardinality(ret.Tables) = 1
    /\ \E t \in ret.Tables : t.Name = <<"U", "s">>


----------------------------------------------------------------------------
(* The cluster directory.  A path is <<directory, database OID, file       *)
(* number>>: <<"global", 0, 1262>> is global/1262 and <<"base", 5, 1259>>  *)
(* is base/5/1259.  files maps the paths of the files that exist to their  *)
(* contents.                                                               *)

GlobalPath(fileNo) == <<"global", 0, fileNo>>

BasePath(dbOID, fileNo) == <<"base", dbOID, fileNo>>

\* the file is truncated when it is opened (bug)
FilesAfterTruncatingRead(fs, path) ==
    IF path \in DOMAIN fs THEN [fs EXCEPT ![path] = <<>>] ELSE fs

\* the directory after os.ReadFile(path): reading leaves every file as it was
FilesAfterReadFile(fs, path) == fs

RECURSIVE FilesAfterReads(_, _)
\* the directory after the reads of a set of paths
FilesAfterReads(fs, paths) ==
    IF paths = {} THEN fs
    ELSE LET p == CHOOSE q \in paths : TRUE
         IN FilesAfterReads(FilesAfterReadFile(fs, p), paths \ {p})

\* os.ReadFile
osReadFile(fs, path) ==
    IF path \in DOMAIN fs THEN ReadOK(fs[path]) ELSE ReadError

DatabaseInfo(oid, name) == [OID |-> oid, Name |-> name]

\* the databases of a database catalog file, rows of OID 0 dropped
ParsePGDatabase(dbData) == SelectSeq(dbData.dbs, LAMBDA d : d.OID # 0)

\* a nil *DatabaseDump
NilDump == [isnil |-> TRUE]

dumpDatabase(fs, db, opts) ==
    LET classRead == osReadFile(fs, BasePath(db.OID, 1259))
        attrRead == osReadFile(fs, BasePath(db.OID, 1249))
    IN IF classRead.err THEN NilDump
       ELSE IF attrRead.err THEN NilDump
       ELSE LET tableReader ==
                    [f \in DOMAIN ParsePGClass(classRead.data) |->
                        osReadFile(fs, BasePath(db.OID, f))]
                result == DumpDatabaseFromFiles(classRead.data, attrRead.data,
                                                tableReader, opts)
            IN [isnil |-> FALSE, OID |-> db.OID, Name |-> db.Name,
                Tables |-> result.Tables]

\* the databases DumpDataDir passes to dumpDatabase
SelectedDatabases(databases, opts) ==
    SelectSeq(databases,
              LAMBDA db :
                  /\ ~HasPrefix(db.Name, <<"t", "e", "m", "p", "l", "a", "t", "e">>)
                  /\ ~(opts.DatabaseFilter # <<>> /\ db.Name # opts.DatabaseFilter))

RECURSIVE DumpDatabases(_, _, _, _)
\* the non-nil dumps of the selected databases from index i on
DumpDatabases(fs, selected, opts, i) ==
    IF i > Len(selected) THEN <<>>
    ELSE LET dbDump == dumpDatabase(fs, selected[i], opts)
             rest == DumpDatabases(fs, selected, opts, i + 1)
         IN IF dbDump.isnil THEN rest ELSE <<dbDump>> \o rest

DumpDataDir(fs, opts0) ==
    LET opts == OptionsOrDefault(opts0)
        dbRead == osReadFile(fs, GlobalPath(1262))
    IN IF dbRead.err THEN [err |-> TRUE]
       ELSE [err |-> FALSE,
             Databases |-> DumpDatabases(fs,
                               SelectedDatabases(ParsePGDatabase(dbRead.data), opts),
                               opts, 1)]

\* withDefaults: nil options become the default options
withDefaults(opts) == OptionsOrDefault(opts)

ScanAllDeletedRows(fs, opts) ==
    LET result == DumpDataDir(fs, withDefaults(opts))
    IN IF result.err THEN [err |-> TRUE] ELSE result

\* the paths dumpDatabase passes to os.ReadFile
dumpDatabaseReads(fs, db, opts) ==
    LET classRead == osReadFile(fs, BasePath(db.OID, 1259))
        attrRead == osReadFile(fs, BasePath(db.OID, 1249))
    IN IF classRead.err THEN {BasePath(db.OID, 1259)}
       ELSE IF attrRead.err THEN {BasePath(db.OID, 1259), BasePath(db.OID, 1249)}
       ELSE {BasePath(db.OID, 1259), BasePath(db.OID, 1249)}
            \cup {BasePath(db.OID, f) :
                     f \in DumpDatabaseFromFilesReads(classRead.data, opts)}

\* the paths DumpDataDir passes to os.ReadFile
DumpDataDirReads(fs, opts0) ==
    LET opts == OptionsOrDefault(opts0)
        dbRead == osReadFile(fs, GlobalPath(1262))
    IN IF dbRead.err THEN {GlobalPath(1262)}
       ELSE LET selected == SelectedDatabases(ParsePGDatabase(dbRead.data), opts)
            IN {GlobalPath(1262)}
               \cup UNION {dumpDatabaseReads(fs, selected[i], opts) :
                              i \in 1..Len(selected)}

----------------------------------------------------------------------------
(* Block ranges of a relation file.  A relation file is the sequence of    *)
(* its whole blocks.                                                       *)

\* a nil *BlockRange
NilRange == [isnil |-> TRUE]

BlockRange(start, end) == [isnil |-> FALSE, Start |-> start, End |-> end]

\* the directory after os.Open(path), Stat, Seek, Read and Close
FilesAfterOpen(fs, path) == fs

\* the range's End is ignored and the file is read to its last block (bug)
ReadBlockRangeToEndOfFile(fs, path, blockRange) ==
    IF path \notin DOMAIN fs THEN [err |-> TRUE]
    ELSE LET totalBlocks == Len(fs[path])
             start == IF ~blockRange.isnil /\ blockRange.Start >= 0
                      THEN blockRange.Start ELSE 0
         IN IF start >= totalBlocks THEN [err |-> TRUE]
            ELSE [err |-> FALSE,
                  data |-> SubSeq(fs[path], start + 1, totalBlocks)]

ReadBlockRange(fs, path, blockRange) ==
    IF path \notin DOMAIN fs THEN [err |-> TRUE]
    ELSE LET totalBlocks == Len(fs[path])
             start == IF ~blockRange.isnil /\ blockRange.Start >= 0
                      THEN blockRange.Start ELSE 0
             end0 == IF ~blockRange.isnil /\ blockRange.End >= 0
                     THEN blockRange.End ELSE totalBlocks - 1
             end == IF end0 >= totalBlocks THEN totalBlocks - 1 ELSE end0
         IN IF start >= totalBlocks THEN [err |-> TRUE]
            ELSE IF start > end THEN [err |-> TRUE]
            ELSE [err |-> FALSE, data |-> SubSeq(fs[path], start + 1, end + 1)]

----------------------------------------------------------------------------
(* The TOAST reader.                                                       *)

\* little-endian unsigned 32-bit integer at offset off, zero if out of range
u32(buf, off) ==
    IF off + 4 > Len(buf) THEN 0
    ELSE buf[off + 1] + 256 * buf[off + 2] + 65536 * buf[off + 3]
         + 16777216 * buf[off + 4]

ParseTOASTPointer(data) ==
    IF Len(data) < 18 THEN NilPtr
    ELSE LET tag == data[1] IN
      IF tag # 1 /\ tag # 2 /\ tag # 18 THEN NilPtr
      ELSE TOASTPointer(
               \* rawSizeField & 0x3FFFFFFF
               data[2] + 256 * data[3] + 65536 * data[4]
                   + 16777216 * (data[5] % 64),
               u32(data, 5),
               u32(data, 9),
               u32(data, 13),
               tag = 2 \/ tag = 18,
               \* rawSizeField >> 30
               data[5] \div 64)

RECURSIVE ChunksOfEntries(_, _)
\* the chunks of the entries from index i on
ChunksOfEntries(entries, i) ==
    IF i > Len(entries) THEN <<>>
    ELSE LET tuple == entries[i].Tuple
             rest == ChunksOfEntries(entries, i + 1)
         IN IF tuple.isnil \/ Len(tuple.Data) < 8 THEN rest
            ELSE LET offset == align(8, 4)
                     chunkData ==
                         IF offset < Len(tuple.Data)
                         THEN ReadVarlena(Drop(tuple.Data, offset)).val
                         ELSE NilBytes
                 IN IF chunkData = NilBytes \/ Len(chunkData) = 0 THEN rest
                    ELSE <<TOASTChunk(u32(tuple.Data, 0), i32(tuple.Data, 4),
                                      chunkData)>> \o rest

ReadTOASTTable(data) == ChunksOfEntries(ReadTuples(data, TRUE), 1)

NewTOASTReaderForDB(dataDir, dbOID) ==
    [chunks |-> [r \in {} |-> <<>>], dataDir |-> dataDir, dbOID |-> dbOID]

\* r.chunks[toastRelID] = chunkList
WithChunks(r, toastRelID, chunkList) ==
    [r EXCEPT !.chunks =
        [id \in DOMAIN r.chunks \cup {toastRelID} |->
            IF id = toastRelID THEN chunkList ELSE r.chunks[id]]]

\* the reader after LoadTOASTTable
LoadTOASTTable(r, toastRelID, data) ==
    WithChunks(r, toastRelID, ReadTOASTTable(data))

\* the reader after LoadTOASTTableFromFile, and whether it returns an error
LoadTOASTTableFromFile(r, fs, toastRelID) ==
    IF r.dataDir = "" THEN [reader |-> r, err |-> TRUE]
    ELSE LET read == osReadFile(fs, BasePath(r.dbOID, toastRelID))
         IN IF read.err THEN [reader |-> r, err |-> TRUE]
            ELSE [reader |-> LoadTOASTTable(r, toastRelID, read.data),
                  err |-> FALSE]

\* ReadValue reads the file of the TOAST relation whether or not the relation
\* is in the cache (bug)
ReadValueReadsEveryTime(r, data) ==
    LET ptr == ParseTOASTPointer(data)
    IN IF ~ptr.isnil /\ r.dataDir # ""
       THEN {BasePath(r.dbOID, ptr.ToastRelID)}
       ELSE {}

\* the paths ReadValue passes to os.ReadFile
ReadValueReads(r, data) ==
    LET ptr == ParseTOASTPointer(data)
    IN IF ~ptr.isnil /\ ptr.ToastRelID \notin DOMAIN r.chunks /\ r.dataDir # ""
       THEN {BasePath(r.dbOID, ptr.ToastRelID)}
       ELSE {}

\* the reader after ReadValue
ReaderAfterReadValue(r, fs, data) ==
    LET ptr == ParseTOASTPointer(data)
    IN IF ~ptr.isnil /\ ptr.ToastRelID \notin DOMAIN r.chunks /\ r.dataDir # ""
       THEN LoadTOASTTableFromFile(r, fs, ptr.ToastRelID).reader
       ELSE r

\* the values ReadValue can return
ReadValue(r, fs, data) ==
    LET ptr == ParseTOASTPointer(data)
        loaded == ReaderAfterReadValue(r, fs, data)
    IN IF ptr.isnil THEN {data}
       ELSE IF ptr.ToastRelID \notin DOMAIN loaded.chunks THEN {NilBytes}
       ELSE ReassembleTOAST(loaded.chunks[ptr.ToastRelID], ptr.ValueID, ptr)

----------------------------------------------------------------------------
(* Cluster directories the operations run on.                              *)

TestDB == <<"t", "e", "s", "t", "d", "b">>

Postgres == <<"p", "o", "s", "t", "g", "r", "e", "s">>

Template1 == <<"t", "e", "m", "p", "l", "a", "t", "e", "1">>

Users == <<"u", "s", "e", "r", "s">>

\* global/1262: a template database, testdb (OID 16384) and postgres (OID 5)
DatabaseFile ==
    [kind |-> "pg_database",
     dbs |-> <<DatabaseInfo(1, Template1), DatabaseInfo(16384, TestDB),
               DatabaseInfo(5, Postgres)>>]

\* base/16384/1259: the table users, its index and its TOAST table
TestDBClassFile ==
    [kind |-> "pg_class",
     rows |-> <<TableInfo(16385, Users, 16385, "r"),
                TableInfo(16390, Users \o <<"_", "p", "k", "e", "y">>, 16390, "i"),
                TableInfo(16500, <<"p", "g", "_", "t", "o", "a", "s", "t">>,
                          16500, "t")>>]

TestDBAttrFile == [kind |-> "pg_attribute", attrs |-> [oid \in {16385} |-> IdAttrs]]

\* a database without relations
EmptyClassFile == [kind |-> "pg_class", rows |-> <<>>]

EmptyAttrFile == [kind |-> "pg_attribute", attrs |-> [oid \in {} |-> <<>>]]

\* the four bytes of n, little-endian
LE32(n) ==
    <<n % 256, (n \div 256) % 256, (n \div 65536) % 256, n \div 16777216>>

\* a tuple of a TOAST table: chunk_id, chunk_seq and chunk_data under a
\* 1-byte varlena header
ChunkTuple(id, seq, payload) ==
    HeapTuple(TRUE, FALSE, TRUE, NoBitmap,
              LE32(id) \o LE32(seq) \o <<2 * (Len(payload) + 1) + 1>> \o payload)

\* base/16384/16500: value 42 in two chunks stored out of order, value 43 in one
ToastHeap ==
    <<<<LiveItem(ChunkTuple(42, 1, <<66>>)),
        LiveItem(ChunkTuple(43, 0, <<67>>)),
        LiveItem(ChunkTuple(42, 0, <<65>>))>>>>

\* a TOAST table of one chunk
OtherToastHeap == <<<<LiveItem(ChunkTuple(42, 0, <<68>>))>>>>

IntactCluster ==
    [p \in {GlobalPath(1262), BasePath(16384, 1259), BasePath(16384, 1249),
            BasePath(16384, 16385), BasePath(16384, 16500),
            BasePath(5, 1259), BasePath(5, 1249)} |->
        CASE p = GlobalPath(1262) -> DatabaseFile
          [] p = BasePath(16384, 1259) -> TestDBClassFile
          [] p = BasePath(16384, 1249) -> TestDBAttrFile
          [] p = BasePath(16384, 16385) -> TwoRowHeap
          [] p = BasePath(16384, 16500) -> ToastHeap
          [] p = BasePath(5, 1259) -> EmptyClassFile
          [] p = BasePath(5, 1249) -> EmptyAttrFile]

\* the cluster without some of its files
Without(fs, paths) == [p \in DOMAIN fs \ paths |-> fs[p]]

Clusters ==
    {IntactCluster,
     Without(IntactCluster, {GlobalPath(1262)}),
     Without(IntactCluster, {BasePath(5, 1249)}),
     Without(IntactCluster, {BasePath(16384, 1259)}),
     Without(IntactCluster, {BasePath(16384, 16385), BasePath(16384, 16500)})}

Readers ==
    {NewTOASTReader, NewTOASTReaderForDB("pgdata", 16384),
     NewTOASTReaderForDB("pgdata", 5)}

DirOptions ==
    {Options(d, f, l, k) : d \in {<<>>, TestDB, Postgres},
                           f \in {<<>>, <<"U", "S">>, <<"x">>},
                           l \in BOOLEAN, k \in BOOLEAN}
    \cup {NilOptions}

\* an 18-byte value: the tag, raw size and method, external size, value id and
\* TOAST relation id, and one more byte
PointerBytes(tag, rawSize, method, valueID, toastRelID) ==
    <<tag>> \o <<rawSize % 256, 0, 0, 64 * method>> \o LE32(rawSize)
        \o LE32(valueID) \o LE32(toastRelID) \o <<0>>

Values ==
    {PointerBytes(tag, MaxRawSize \div 2, m, id, rel) :
        tag \in {1, 2}, m \in {0, ToastCompressionLZ4}, id \in {42, 43, 44},
        rel \in {16500, 16501}}
    \cup {<<72, 105>>, <<>>}

BlockRanges ==
    {BlockRange(s, e) : s \in -1..MaxTuples, e \in -1..MaxTuples} \cup {NilRange}

----------------------------------------------------------------------------
(* The operations on a cluster directory.                                  *)

DumpDataDirCall ==
    /\ Idle
    /\ \E opts \in DirOptions :
        /\ Called("DumpDataDir", [opts |-> opts], DumpDataDir(files, opts))
        /\ reads' = DumpDataDirReads(files, opts)
        /\ files' = FilesAfterReads(files, DumpDataDirReads(files, opts))
    /\ UNCHANGED reader

ScanAllDeletedRowsCall ==
    /\ Idle
    /\ \E opts \in DirOptions :
        /\ Called("ScanAllDeletedRows", [opts |-> opts],
                  ScanAllDeletedRows(files, opts))
        /\ reads' = DumpDataDirReads(files, withDefaults(opts))
        /\ files' = FilesAfterReads(files, DumpDataDirReads(files, withDefaults(opts)))
    /\ UNCHANGED reader

ReadBlockRangeCall ==
    /\ Idle
    /\ \E path \in {BasePath(16384, 16385), BasePath(16384, 16500)},
          blockRange \in BlockRanges :
        /\ Called("ReadBlockRange", [path |-> path, blockRange |-> blockRange],
                  ReadBlockRange(files, path, blockRange))
        /\ reads' = {path}
        /\ files' = FilesAfterOpen(files, path)
    /\ UNCHANGED reader

LoadTOASTTableCall ==
    /\ Idle
    /\ \E toastRelID \in {16500, 16501}, data \in {ToastHeap, OtherToastHeap} :
        /\ Called("LoadTOASTTable", [toastRelID |-> toastRelID, data |-> data],
                  <<>>)
        /\ reader' = LoadTOASTTable(reader, toastRelID, data)
    /\ reads' = {}
    /\ UNCHANGED files

LoadTOASTTableFromFileCall ==
    /\ Idle
    /\ \E toastRelID \in {16500, 16501} :
        LET loaded == LoadTOASTTableFromFile(reader, files, toastRelID)
        IN /\ Called("LoadTOASTTableFromFile", [toastRelID |-> toastRelID],
                     [err |-> loaded.err])
           /\ reader' = loaded.reader
           /\ reads' = IF reader.dataDir = "" THEN {}
                       ELSE {BasePath(reader.dbOID, toastRelID)}
           /\ files' = IF reader.dataDir = "" THEN files
                       ELSE FilesAfterReadFile(files,
                                               BasePath(reader.dbOID, toastRelID))

ReadValueCall ==
    /\ Idle
    /\ \E data \in Values :
        /\ \E r \in ReadValue(reader, files, data) :
              Called("ReadValue", [data |-> data], r)
        /\ reader' = ReaderAfterReadValue(reader, files, data)
        /\ reads' = ReadValueReads(reader, data)
        /\ files' = FilesAfterReads(files, ReadValueReads(reader, data))

Init ==
    /\ files \in Clusters
    /\ reads = {}
    /\ reader \in Readers
    /\ op = "idle"
    /\ Debug = FALSE
    /\ arg = <<>>
    /\ ret = <<>>

Next ==
    \/ DumpDataDirCall
    \/ ScanAllDeletedRowsCall
    \/ ReadBlockRangeCall
    \/ LoadTOASTTableCall
    \/ LoadTOASTTableFromFileCall
    \/ ReadValueCall
    \/ Return

Spec == Init /\ [][Next]_vars

----------------------------------------------------------------------------
(* Properties of the operations on a cluster directory.                    *)

DeletedRowsOnDisk(fs, dbOID, t) ==
    LET attrs == ParsePGAttribute(fs[BasePath(dbOID, 1249)])[t.OID]
        columns == [i \in 1..Len(attrs) |->
                       Column(attrs[i].Name, attrs[i].TypID, attrs[i].Len,
                              attrs[i].Num, "")]
        deleted == ReadRowsWithDeleted(fs[BasePath(dbOID, t.Filenode)], columns).deleted
    IN {deleted[i] : i \in 1..Len(deleted)}

\* C9: the dump ScanAllDeletedRows returns holds, for every table it read,
\* the rows of the table's deleted-but-retained tuples as well as the visible
\* rows.
C9_ScanReturnsDeletedRows ==
    (op = "ScanAllDeletedRows" /\ ~ret.err /\ ~OptionsOrDefault(arg.opts).ListOnly) =>
        \A i \in 1..Len(ret.Databases) :
            \A t \in ret.Databases[i].Tables :
                (BasePath(ret.Databases[i].OID, t.Filenode) \in DOMAIN files) =>
                    \A row \in DeletedRowsOnDisk(files, ret.Databases[i].OID, t) :
                        \E j \in 1..Len(t.Rows) : t.Rows[j] = row

----------------------------------------------------------------------------
(* Properties of the orchestrator's table reads.                           *)

\* the names of the attributes the attribute catalog holds for a relation
CatalogColumnNames(classData, oid) ==
    LET attributes == ParsePGAttribute(AttrFileFor(classData))
    IN IF oid \in DOMAIN attributes
       THEN [i \in 1..Len(attributes[oid]) |-> attributes[oid][i].Name]
       ELSE <<>>

\* C11: with list_only set, every table of the result carries its column
\* list, no rows and row_count 0, and the table reader is never invoked.
C11_ListOnlyReadsNoTableFile ==
    (op = "DumpDatabaseFromFiles" /\ OptionsOrDefault(arg.opts).ListOnly) =>
        /\ reads = {}
        /\ \A t \in ret.Tables :
              /\ t.Rows = <<>>
              /\ t.RowCount = 0
              /\ [i \in 1..Len(t.Columns) |-> t.Columns[i].Name]
                    = CatalogColumnNames(arg.classData, t.OID)

\* list_only is set and a table whose file is readable is listed with its
\* column
C11_Witness ==
    /\ op = "DumpDatabaseFromFiles"
    /\ OptionsOrDefault(arg.opts).ListOnly
    /\ \E t \in ret.Tables :
          /\ Len(t.Columns) > 0
          /\ ~TableReaderFor(arg.classData)[t.Filenode].err

\* C12: a relation that passed the filters and whose data file cannot be read
\* does not appear in the table list of the result.
C12_UnreadableRelationSkipped ==
    (op = "DumpDatabaseFromFiles") =>
        \A t \in ret.Tables :
            (t.Filenode \in reads) => ~TableReaderFor(arg.classData)[t.Filenode].err

\* the catalog files DumpDataDir needs: global/1262 and, for every database
\* selected for dumping, base/<db-oid>/1259 and base/<db-oid>/1249
NeededCatalogs(fs, opts) ==
    {GlobalPath(1262)} \cup
    (IF GlobalPath(1262) \in DOMAIN fs
     THEN LET selected == SelectedDatabases(ParsePGDatabase(fs[GlobalPath(1262)]),
                                            OptionsOrDefault(opts))
          IN UNION {{BasePath(selected[i].OID, 1259), BasePath(selected[i].OID, 1249)} :
                       i \in 1..Len(selected)}
     ELSE {})

\* C13: DumpDataDir returns an error whenever one of the catalog files it
\* needs is missing.
C13_MissingCatalogIsAnError ==
    (op = "DumpDataDir" /\ ~(NeededCatalogs(files, arg.opts) \subseteq DOMAIN files)) =>
        ret.err

----------------------------------------------------------------------------
(* Segments of a relation file.  Segment 0 of a relation is the file       *)
(* basePath, segment N > 0 is the file basePath.N.                         *)

\* largest enumerated global block number
MaxBlock == 5
\* most blocks of an enumerated segment file, and of a segment size
MaxSegBlocks == 2

DefaultSegmentSize == 1073741824

\* Go's integer division and remainder (truncated towards zero), b > 0
GoDiv(a, b) == IF a >= 0 THEN a \div b ELSE -((-a) \div b)

GoMod(a, b) == a - b * GoDiv(a, b)

\* a run-time panic (integer divide by zero, index out of range)
Panic == [panic |-> TRUE]

\* the block number is divided by the segment size in bytes (bug)
GlobalBlockToSegmentInBytes(globalBlock, segmentSize) ==
    LET size == IF segmentSize <= 0 THEN DefaultSegmentSize ELSE segmentSize
    IN [panic |-> FALSE,
        segmentNum |-> GoDiv(globalBlock, size),
        localBlock |-> GoMod(globalBlock, size)]

GlobalBlockToSegment(globalBlock, segmentSize) ==
    LET size == IF segmentSize <= 0 THEN DefaultSegmentSize ELSE segmentSize
        blocksPerSegment == size \div PageSize
    IN IF blocksPerSegment = 0 THEN Panic
       ELSE [panic |-> FALSE,
             segmentNum |-> GoDiv(globalBlock, blocksPerSegment),
             localBlock |-> GoMod(globalBlock, blocksPerSegment)]

\* fmt.Sprintf("%s.%d", basePath, i)
SegmentPath(basePath, i) == Append(basePath, i)

\* a nil *SegmentOptions
NilSegmentOptions == [isnil |-> TRUE]

SegmentOptions(segmentNumber, segmentSize) ==
    [isnil |-> FALSE, SegmentNumber |-> segmentNumber, SegmentSize |-> segmentSize]

\* the fields of a SegmentInfo the readers use
SegmentInfo(path, segmentNumber, totalBlocks) ==
    [BasePath |-> path, SegmentNumber |-> segmentNumber, TotalBlocks |-> totalBlocks]

RECURSIVE MoreSegments(_, _, _)
\* the segments basePath.i, basePath.(i+1), ... up to the first missing one
MoreSegments(fs, basePath, i) ==
    IF i >= 1000 \/ SegmentPath(basePath, i) \notin DOMAIN fs THEN <<>>
    ELSE <<SegmentInfo(SegmentPath(basePath, i), i,
                       Len(fs[SegmentPath(basePath, i)]))>>
         \o MoreSegments(fs, basePath, i + 1)

ListSegments(fs, basePath) ==
    (IF basePath \in DOMAIN fs
     THEN <<SegmentInfo(basePath, 0, Len(fs[basePath]))>>
     ELSE <<>>)
    \o MoreSegments(fs, basePath, 1)

\* the block, or an error: the file is missing, the block is beyond its
\* blocks, or the seek to a negative offset fails
ReadSegmentBlock(fs, path, blockNum) ==
    IF path \notin DOMAIN fs THEN [err |-> TRUE]
    ELSE IF blockNum >= Len(fs[path]) THEN [err |-> TRUE]
    ELSE IF blockNum < 0 THEN [err |-> TRUE]
    ELSE [err |-> FALSE, data |-> <<fs[path][blockNum + 1]>>]

RECURSIVE ReadBlocksFrom(_, _, _, _, _)
\* the loop of ReadMultiSegmentFile from block blockNum on
ReadBlocksFrom(fs, segments, blocksPerSegment, blockNum, globalBlockEnd) ==
    IF blockNum > globalBlockEnd THEN [panic |-> FALSE, data |-> <<>>]
    ELSE IF blocksPerSegment = 0 THEN Panic
    ELSE LET segIdx == GoDiv(blockNum, blocksPerSegment)
             localBlock == GoMod(blockNum, blocksPerSegment)
         IN IF segIdx >= Len(segments) THEN [panic |-> FALSE, data |-> <<>>]
            ELSE IF segIdx < 0 THEN Panic
            ELSE LET block == ReadSegmentBlock(fs, segments[segIdx + 1].BasePath,
                                               localBlock)
                 IN IF block.err THEN [panic |-> FALSE, data |-> <<>>]
                    ELSE LET rest == ReadBlocksFrom(fs, segments, blocksPerSegment,
                                                    blockNum + 1, globalBlockEnd)
                         IN IF rest.panic THEN Panic
                            ELSE [panic |-> FALSE, data |-> block.data \o rest.data]

ReadMultiSegmentFile(fs, basePath, globalBlockStart, globalBlockEnd, opts) ==
    LET segments == ListSegments(fs, basePath)
        segSize == IF ~opts.isnil /\ opts.SegmentSize > 0
                   THEN opts.SegmentSize ELSE DefaultSegmentSize
        read == ReadBlocksFrom(fs, segments, segSize \div PageSize,
                               globalBlockStart, globalBlockEnd)
    IN IF Len(segments) = 0 THEN [panic |-> FALSE, err |-> TRUE]
       ELSE IF read.panic THEN Panic
       ELSE [panic |-> FALSE, err |-> FALSE, data |-> read.data]

\* the paths ReadMultiSegmentFile passes to os.Stat and os.Open
ReadMultiSegmentFileReads(fs, basePath) ==
    {basePath} \cup
    {SegmentPath(basePath, i) : i \in 1..(Len(MoreSegments(fs, basePath, 1)) + 1)}

----------------------------------------------------------------------------
(* Block range strings.                                                    *)

Digits == <<"0", "1", "2", "3", "4", "5", "6", "7", "8", "9">>

IsDigit(c) == \E k \in 1..Len(Digits) : Digits[k] = c

DigitValue(c) == (CHOOSE k \in 1..Len(Digits) : Digits[k] = c) - 1

RECURSIVE AtoiDigits(_, _, _)
\* the value of the digits of str from index i on, after the value acc
AtoiDigits(str, i, acc) ==
    IF i > Len(str) THEN acc
    ELSE AtoiDigits(str, i + 1, 10 * acc + DigitValue(str[i]))

\* strconv.Atoi: an optional sign and at least one digit, nothing else
Atoi(str) ==
    LET signed == Len(str) > 0 /\ str[1] \in {"+", "-"}
        body == IF signed THEN Tail(str) ELSE str
    IN IF body = <<>> \/ \E i \in 1..Len(body) : ~IsDigit(body[i])
       THEN [err |-> TRUE]
       ELSE [err |-> FALSE,
             val |-> IF signed /\ str[1] = "-" THEN -AtoiDigits(body, 1, 0)
                     ELSE AtoiDigits(body, 1, 0)]

\* index of the first occurrence of character c in str, 0 if there is none
IndexOf(str, c) ==
    IF \E i \in 1..Len(str) : str[i] = c
    THEN CHOOSE i \in 1..Len(str) : str[i] = c /\ \A j \in 1..(i - 1) : str[j] # c
    ELSE 0

\* strings.SplitN(str, ":", 2) for a string that holds a ":"
SplitN2(str) ==
    LET i == IndexOf(str, ":")
    IN <<SubSeq(str, 1, i - 1), SubSeq(str, i + 1, Len(str))>>

\* no range is ever rejected for its order (bug)
StartAfterEndNever(br) == FALSE

\* br.Start >= 0 && br.End >= 0 && br.Start > br.End
StartAfterEnd(br) == br.Start >= 0 /\ br.End >= 0 /\ br.Start > br.End

\* one side of "A:B": -1 for an empty side, an error for a side that is no
\* number or is negative
ParseSide(part) ==
    IF part = <<>> THEN [err |-> FALSE, val |-> -1]
    ELSE LET n == Atoi(part)
         IN IF n.err THEN [err |-> TRUE]
            ELSE IF n.val < 0 THEN [err |-> TRUE]
            ELSE [err |-> FALSE, val |-> n.val]

ParseBlockRange(str) ==
    IF str = <<>> THEN [err |-> FALSE, range |-> NilRange]
    ELSE LET parsed ==
                 IF IndexOf(str, ":") # 0
                 THEN LET parts == SplitN2(str)
                          start == ParseSide(parts[1])
                          end == ParseSide(parts[2])
                      IN IF start.err \/ end.err THEN [err |-> TRUE]
                         ELSE [err |-> FALSE, range |-> BlockRange(start.val, end.val)]
                 ELSE LET block == Atoi(str)
                      IN IF block.err THEN [err |-> TRUE]
                         ELSE IF block.val < 0 THEN [err |-> TRUE]
                         ELSE [err |-> FALSE,
                               range |-> BlockRange(block.val, block.val)]
         IN IF parsed.err THEN [err |-> TRUE]
            ELSE IF StartAfterEnd(parsed.range) THEN [err |-> TRUE]
            ELSE parsed

----------------------------------------------------------------------------
(* The segment readers as operations on a relation of up to three segment  *)
(* files.                                                                  *)

\* block blk of segment seg: a page with one tuple that names them
SegmentPage(seg, blk) ==
    <<LiveItem(HeapTuple(TRUE, FALSE, TRUE, NoBitmap, <<seg, blk, 0, 0>>))>>

RelationPath == BasePath(16384, 16385)

\* the file of segment n of the relation
SegmentFilePath(n) == IF n = 0 THEN RelationPath ELSE SegmentPath(RelationPath, n)

\* the segment number a path of the relation names
SegmentNumberOf(path) == IF Len(path) = 3 THEN 0 ELSE path[4]

\* relations whose segments 0, 1, 2 each are missing (-1) or hold 0 to
\* MaxSegBlocks blocks
SegmentLayouts ==
    {[p \in {SegmentFilePath(n) : n \in {m \in 0..2 : counts[m] >= 0}} |->
         [b \in 1..counts[SegmentNumberOf(p)] |->
             SegmentPage(SegmentNumberOf(p), b - 1)]] :
        counts \in [0..2 -> -1..MaxSegBlocks]}

\* no options, a segment size below one page, and segment sizes of whole pages
SegmentOptionSets ==
    {NilSegmentOptions, SegmentOptions(0, PageSize \div 2)}
    \cup {SegmentOptions(0, k * PageSize) : k \in 1..MaxSegBlocks}

SegmentSizes ==
    {0, PageSize \div 2} \cup {k * PageSize : k \in 1..MaxSegBlocks}

GlobalBlockToSegmentCall ==
    /\ Idle
    /\ \E globalBlock \in -1..MaxBlock, segmentSize \in SegmentSizes :
        Called("GlobalBlockToSegment",
               [globalBlock |-> globalBlock, segmentSize |-> segmentSize],
               GlobalBlockToSegment(globalBlock, segmentSize))
    /\ reads' = {}
    /\ UNCHANGED <<files, reader>>

ReadMultiSegmentFileCall ==
    /\ Idle
    /\ \E globalBlockStart \in -1..MaxBlock, globalBlockEnd \in -1..MaxBlock,
          opts \in SegmentOptionSets :
        Called("ReadMultiSegmentFile",
               [globalBlockStart |-> globalBlockStart,
                globalBlockEnd |-> globalBlockEnd, opts |-> opts],
               ReadMultiSegmentFile(files, RelationPath, globalBlockStart,
                                    globalBlockEnd, opts))
    /\ reads' = ReadMultiSegmentFileReads(files, RelationPath)
    /\ files' = FilesAfterReads(files, ReadMultiSegmentFileReads(files, RelationPath))
    /\ UNCHANGED reader

\* the block ranges tried on a segment file: -1 is the absent bound
SegmentBlockRanges ==
    {BlockRange(s, e) : s \in -2..MaxSegBlocks, e \in -2..MaxSegBlocks}
    \cup {NilRange}

ReadBlockRangeOfSegmentCall ==
    /\ Idle
    /\ \E n \in 0..2, blockRange \in SegmentBlockRanges :
        /\ Called("ReadBlockRange",
                  [path |-> SegmentFilePath(n), blockRange |-> blockRange],
                  ReadBlockRange(files, SegmentFilePath(n), blockRange))
        /\ reads' = {SegmentFilePath(n)}
        /\ files' = FilesAfterOpen(files, SegmentFilePath(n))
    /\ UNCHANGED reader

InitSegment ==
    /\ files \in SegmentLayouts
    /\ reader = NewTOASTReader
    /\ reads = {}
    /\ op = "idle"
    /\ Debug = FALSE
    /\ arg = <<>>
    /\ ret = <<>>

NextSegment ==
    \/ GlobalBlockToSegmentCall
    \/ ReadMultiSegmentFileCall
    \/ ReadBlockRangeOfSegmentCall
    \/ Return

SpecSegment == InitSegment /\ [][NextSegment]_vars

----------------------------------------------------------------------------
(* Properties of the segment readers.                                      *)

\* C14: for a global block b >= 0 and a segment size s > 0 that is a
\* multiple of 8192, GlobalBlockToSegment returns segment b div (s/8192) and
\* local block b mod (s/8192), so 0 <= local < s/8192 and
\* segment * (s/8192) + local = b.
C14_SegmentAndLocalBlock ==
    (/\ op = "GlobalBlockToSegment"
     /\ arg.globalBlock >= 0
     /\ arg.segmentSize > 0
     /\ arg.segmentSize % 8192 = 0) =>
        LET n == arg.segmentSize \div 8192
        IN /\ ~ret.panic
           /\ ret.segmentNum = arg.globalBlock \div n
           /\ ret.localBlock = arg.globalBlock % n
           /\ 0 <= ret.localBlock /\ ret.localBlock < n
           /\ ret.segmentNum * n + ret.localBlock = arg.globalBlock

\* block 5 of a relation with segments of two blocks is block 1 of segment 2
C14_Witness ==
    /\ op = "GlobalBlockToSegment"
    /\ arg.globalBlock = 5
    /\ arg.segmentSize = 2 * 8192
    /\ ret.segmentNum = 2
    /\ ret.localBlock = 1

\* the blocks per segment a call of ReadMultiSegmentFile works with
BlocksPerSegmentOf(opts) ==
    (IF ~opts.isnil /\ opts.SegmentSize > 0 THEN opts.SegmentSize
     ELSE DefaultSegmentSize) \div 8192

\* C15: the i-th page ReadMultiSegmentFile returns is the page of global
\* block start + i - 1, read from local block (b mod blocks_per_segment) of
\* the segment file numbered (b div blocks_per_segment); no page comes from a
\* segment file with another number.
C15_PagesComeFromTheirSegment ==
    (/\ op = "ReadMultiSegmentFile"
     /\ ~ret.panic
     /\ ~ret.err
     /\ arg.globalBlockStart >= 0) =>
        \A i \in 1..Len(ret.data) :
            LET b == arg.globalBlockStart + i - 1
                n == BlocksPerSegmentOf(arg.opts)
                path == SegmentFilePath(b \div n)
            IN /\ path \in DOMAIN files
               /\ (b % n) < Len(files[path])
               /\ ret.data[i] = files[path][(b % n) + 1]

----------------------------------------------------------------------------
(* The OID-filenode map file (pg_filenode.map).                            *)

RelMapMagic == 5842711

RelMapMaxMappings == 62

\* binary.LittleEndian.Uint32(data[off : off+4]), off counted from 0
LittleEndianUint32(data, off) ==
    data[off + 1] + 256 * data[off + 2] + 65536 * data[off + 3]
    + 16777216 * data[off + 4]

\* int32(binary.LittleEndian.Uint32(data[off : off+4]))
Int32OfLittleEndianUint32(data, off) ==
    data[off + 1] + 256 * data[off + 2] + 65536 * data[off + 3]
    + 16777216 * (IF data[off + 4] >= 128 THEN data[off + 4] - 256
                  ELSE data[off + 4])

\* rm.Magic == RelMapMagic; a magic field of 2^31 or more is not RelMapMagic
MagicMatches(data) ==
    /\ data[4] < 128
    /\ LittleEndianUint32(data, 0) = RelMapMagic

RelMapping(oid, filenode) == [OID |-> oid, Filenode |-> filenode]

\* only a negative count is refused (bug)
CountOutOfRangeNegativeOnly(numMappings) == numMappings < 0

\* rm.NumMappings < 0 || rm.NumMappings > RelMapMaxMappings
CountOutOfRange(numMappings) ==
    numMappings < 0 \/ numMappings > RelMapMaxMappings

RECURSIVE ReadMappings(_, _, _, _, _)
\* the loop over the mappings: i counts them, offset is where the next lies
ReadMappings(data, offset, i, numMappings, mappings) ==
    IF i >= numMappings THEN mappings
    ELSE IF offset + 8 > Len(data) THEN mappings
    ELSE ReadMappings(data, offset + 8, i + 1, numMappings,
                      Append(mappings,
                             RelMapping(LittleEndianUint32(data, offset),
                                        LittleEndianUint32(data, offset + 4))))

ParseRelMapFile(data) ==
    IF Len(data) < 512 THEN [err |-> TRUE]
    ELSE IF ~MagicMatches(data) THEN [err |-> TRUE]
    ELSE LET numMappings == Int32OfLittleEndianUint32(data, 4)
             crcOffset == 8 + RelMapMaxMappings * 8
         IN IF CountOutOfRange(numMappings) THEN [err |-> TRUE]
            ELSE [err |-> FALSE,
                  rm |-> [Magic |-> RelMapMagic,
                          NumMappings |-> numMappings,
                          Mappings |-> ReadMappings(data, 8, 0, numMappings, <<>>),
                          CRC |-> IF Len(data) >= crcOffset + 4
                                  THEN LittleEndianUint32(data, crcOffset)
                                  ELSE 0]]

RECURSIVE LastMatchingFilenode(_, _, _)
LastMatchingFilenode(mappings, oid, i) ==
    IF i = 0 THEN 0
    ELSE IF mappings[i].OID = oid THEN mappings[i].Filenode
    ELSE LastMatchingFilenode(mappings, oid, i - 1)

\* the last mapping of the OID wins, not the first (bug)
GetFilenodeOfLastMapping(rm, oid) ==
    LastMatchingFilenode(rm.Mappings, oid, Len(rm.Mappings))

RECURSIVE FirstMatchingFilenode(_, _, _)
FirstMatchingFilenode(mappings, oid, i) ==
    IF i > Len(mappings) THEN 0
    ELSE IF mappings[i].OID = oid THEN mappings[i].Filenode
    ELSE FirstMatchingFilenode(mappings, oid, i + 1)

GetFilenode(rm, oid) == FirstMatchingFilenode(rm.Mappings, oid, 1)

RECURSIVE FirstMatchingOID(_, _, _)
FirstMatchingOID(mappings, filenode, i) ==
    IF i > Len(mappings) THEN 0
    ELSE IF mappings[i].Filenode = filenode THEN mappings[i].OID
    ELSE FirstMatchingOID(mappings, filenode, i + 1)

GetOID(rm, filenode) == FirstMatchingOID(rm.Mappings, filenode, 1)

----------------------------------------------------------------------------
(* Block information: the header of one page given as bytes.               *)

headerSize == 24

itemIDSize == 4

\* the 16-bit little-endian number at byte offset off, counted from 0
u16(buf, off) == buf[off + 1] + 256 * buf[off + 2]

HexDigits ==
    <<"0", "1", "2", "3", "4", "5", "6", "7", "8", "9", "A", "B", "C", "D", "E", "F">>

RECURSIVE Hex(_)
\* fmt.Sprintf("%X", n)
Hex(n) ==
    IF n < 16 THEN <<HexDigits[n + 1]>>
    ELSE Append(Hex(n \div 16), HexDigits[(n % 16) + 1])

\* FormatLSN(u64(data, 0)): the high and the low half of the LSN in hex
FormatLSN(data) == Hex(u32(data, 4)) \o <<"/">> \o Hex(u32(data, 0))

\* the header is not subtracted from lower (bug)
ItemCountIgnoringHeader(lower) == lower \div itemIDSize

\* info.ItemCount, set only if info.Lower >= headerSize
ItemCount(lower) ==
    IF lower >= headerSize THEN (lower - headerSize) \div itemIDSize ELSE 0

\* info.FreeSpace, set only if info.Upper > info.Lower
FreeSpace(lower, upper) == IF upper > lower THEN upper - lower ELSE 0

\* the BlockInfo of a page that is all zeros
EmptyBlockInfo(blockNumber) ==
    [isnil |-> FALSE, BlockNumber |-> blockNumber, LSN |-> <<>>, Checksum |-> 0,
     Flags |-> 0, Lower |-> 0, Upper |-> 0, Special |-> 0, PageSize |-> 0,
     Version |-> 0, ItemCount |-> 0, FreeSpace |-> 0, IsEmpty |-> TRUE]

ParseBlockInfo(data, blockNumber) ==
    IF Len(data) < PageSize THEN [isnil |-> TRUE]
    ELSE IF \A i \in 1..PageSize : data[i] = 0 THEN EmptyBlockInfo(blockNumber)
    ELSE [isnil |-> FALSE,
          BlockNumber |-> blockNumber,
          LSN |-> FormatLSN(data),
          Checksum |-> u16(data, 8),
          Flags |-> u16(data, 10),
          Lower |-> u16(data, 12),
          Upper |-> u16(data, 14),
          Special |-> u16(data, 16),
          PageSize |-> 256 * (u16(data, 18) \div 256),
          Version |-> u16(data, 18) % 256,
          ItemCount |-> ItemCount(u16(data, 12)),
          FreeSpace |-> FreeSpace(u16(data, 12), u16(data, 14)),
          IsEmpty |-> FALSE]

----------------------------------------------------------------------------
(* The parsers of command-line strings and of file buffers as operations.  *)

MaxStr == 4

\* the characters of the block range strings tried
RangeChars == {"0", "1", "5", ":", "-", "+", "a"}

RangeStrings == SeqsUpTo(RangeChars, MaxStr)

ParseBlockRangeCall ==
    /\ Idle
    /\ \E str \in RangeStrings :
        Called("ParseBlockRange", [str |-> str], ParseBlockRange(str))
    /\ reads' = {}
    /\ UNCHANGED <<files, reader>>

MaxMaps == 2

\* the mappings written to the map files tried: pg_class and pg_database,
\* each at either of two filenodes
FileMappings ==
    {RelMapping(oid, filenode) : oid \in {1259, 1262}, filenode \in {1262, 16384}}

Zeros(n) == [i \in 1..n |-> 0]

RECURSIVE MappingBytes(_)
MappingBytes(mappings) ==
    IF mappings = <<>> THEN <<>>
    ELSE LE32(Head(mappings).OID) \o LE32(Head(mappings).Filenode)
         \o MappingBytes(Tail(mappings))

\* the four bytes of a mapping count; -1 is FF FF FF FF
CountBytes(n) == IF n < 0 THEN <<255, 255, 255, 255>> ELSE LE32(n)

\* a buffer of length len: magic, count, the mappings, zeros up to the end
RelMapBuffer(magic, count, mappings, len) ==
    LET bytes == magic \o CountBytes(count) \o MappingBytes(mappings)
    IN IF Len(bytes) >= len THEN SubSeq(bytes, 1, len)
       ELSE bytes \o Zeros(len - Len(bytes))

\* the bytes 17 27 59 00 of RelMapMagic, and two that are not the magic
MagicBytes == {<<23, 39, 89, 0>>, <<255, 0, 0, 0>>, <<23, 39, 89, 128>>}

MappingCounts == (0..MaxMaps) \cup {-1, RelMapMaxMappings, RelMapMaxMappings + 1}

RelMapBuffers ==
    {RelMapBuffer(magic, count, mappings, len) :
        magic \in MagicBytes, count \in MappingCounts,
        mappings \in SeqsUpTo(FileMappings, MaxMaps), len \in {511, 512, 513}}

\* the maps ParseRelMapFile returns for the buffers
ParsedRelMaps ==
    {ParseRelMapFile(data).rm :
        data \in {d \in RelMapBuffers : ~ParseRelMapFile(d).err}}

RelMapKeys == {0, 1259, 1262, 16384, 9999}

ParseRelMapFileCall ==
    /\ Idle
    /\ \E data \in RelMapBuffers :
        Called("ParseRelMapFile", [data |-> data], ParseRelMapFile(data))
    /\ reads' = {}
    /\ UNCHANGED <<files, reader>>

GetFilenodeCall ==
    /\ Idle
    /\ \E rm \in ParsedRelMaps, oid \in RelMapKeys :
        Called("GetFilenode", [rm |-> rm, oid |-> oid], GetFilenode(rm, oid))
    /\ reads' = {}
    /\ UNCHANGED <<files, reader>>

GetOIDCall ==
    /\ Idle
    /\ \E rm \in ParsedRelMaps, filenode \in RelMapKeys :
        Called("GetOID", [rm |-> rm, filenode |-> filenode],
               GetOID(rm, filenode))
    /\ reads' = {}
    /\ UNCHANGED <<files, reader>>

MaxPageItems == 2

LE16(n) == <<n % 256, n \div 256>>

\* a buffer of len bytes: a page header with the given lower and upper, LSN
\* 0/1, special 8192, page size 8192 and layout version 4, then zeros
PageBytes(lower, upper, len) ==
    <<1, 0, 0, 0, 0, 0, 0, 0>> \o LE16(0) \o LE16(0) \o LE16(lower)
    \o LE16(upper) \o LE16(8192) \o <<4, 32>> \o Zeros(len - 20)

\* lower: below the header, and the header plus up to MaxPageItems item
\* pointers, whole or not
LowerValues == {0, 23} \cup {headerSize + k : k \in 0..(itemIDSize * MaxPageItems)}

\* upper: below, at and above the values of lower, up to beyond the page
UpperValues == {0, 24, 26, 28, 8000, 8192, 8193}

PageBuffers ==
    {PageBytes(lower, upper, len) :
        lower \in LowerValues, upper \in UpperValues, len \in {8191, 8192}}
    \cup {Zeros(8192)}

ParseBlockInfoCall ==
    /\ Idle
    /\ \E data \in PageBuffers, blockNumber \in 0..1 :
        Called("ParseBlockInfo", [data |-> data, blockNumber |-> blockNumber],
               ParseBlockInfo(data, blockNumber))
    /\ reads' = {}
    /\ UNCHANGED <<files, reader>>

MaxTypeLen == 16

\* columns of a type that the table of typeAlign has or has not, with and
\* without an alignment in the schema, variable-length or of a fixed length
AlignColumns ==
    {Column("c", typID, length, 1, alignChar) :
        typID \in {"OidUnknown", "OidInt2"}, length \in -1..MaxTypeLen,
        alignChar \in {"", "d"}}

\* the alignment DecodeTuple computes for a column whose value starts at the
\* given offset of the tuple data
ColAlignCall ==
    /\ Idle
    /\ \E data \in {<<>>, <<11, 65, 0, 0>>, <<16, 0, 0, 0>>}, col \in AlignColumns :
        Called("ColAlign", [data |-> data, offset |-> 0, col |-> col],
               ColAlign(data, 0, col))
    /\ reads' = {}
    /\ UNCHANGED <<files, reader>>

InitParse ==
    /\ files = NoFiles
    /\ reader = NewTOASTReader
    /\ reads = {}
    /\ op = "idle"
    /\ Debug = FALSE
    /\ arg = <<>>
    /\ ret = <<>>

NextParse ==
    \/ ParseBlockRangeCall
    \/ ParseRelMapFileCall
    \/ GetFilenodeCall
    \/ GetOIDCall
    \/ ParseBlockInfoCall
    \/ ColAlignCall
    \/ Return

SpecParse == InitParse /\ [][NextParse]_vars

----------------------------------------------------------------------------
(* Properties of ParseBlockRange.                                          *)

RECURSIVE PowerOfTen(_)
PowerOfTen(k) == IF k = 0 THEN 1 ELSE 10 * PowerOfTen(k - 1)

RECURSIVE PlaceValueSum(_, _)
\* the sum of digit * 10^place over the first k characters of a digit string
PlaceValueSum(s, k) ==
    IF k = 0 THEN 0
    ELSE PlaceValueSum(s, k - 1)
         + (CHOOSE d \in 0..9 : Digits[d + 1] = s[k]) * PowerOfTen(Len(s) - k)

\* s is a string of decimal digits, at least one
IsDigitString(s) ==
    s # <<>> /\ \A i \in 1..Len(s) : s[i] \in {Digits[k] : k \in 1..10}

\* s is a decimal number: digits after an optional sign
IsDecimalNumber(s) ==
    \/ IsDigitString(s)
    \/ Len(s) > 1 /\ s[1] \in {"+", "-"} /\ IsDigitString(Tail(s))

\* the number a decimal number denotes
NumberOf(s) ==
    IF s[1] = "-" THEN -PlaceValueSum(Tail(s), Len(s) - 1)
    ELSE IF s[1] = "+" THEN PlaceValueSum(Tail(s), Len(s) - 1)
    ELSE PlaceValueSum(s, Len(s))

HasColon(s) == \E i \in 1..Len(s) : s[i] = ":"

\* the sides A and B of "A:B": A holds no ":"
SidesOf(s) ==
    CHOOSE ab \in {<<SubSeq(s, 1, i - 1), SubSeq(s, i + 1, Len(s))>> :
                       i \in 1..Len(s)} :
        /\ s = ab[1] \o <<":">> \o ab[2]
        /\ ~HasColon(ab[1])

\* a side is acceptable: empty, or a decimal number that is not negative
GoodSide(s) == s = <<>> \/ (IsDecimalNumber(s) /\ NumberOf(s) >= 0)

\* the bound a good side stands for
BoundOf(s) == IF s = <<>> THEN -1 ELSE NumberOf(s)

\* C16: ParseBlockRange maps "" to no range, a single number "N" to (N,N),
\* "A:B" to (A,B) with an empty side encoded as -1, and returns an error,
\* never a range, when a side is not a decimal number, is negative, or when
\* both sides are present and A > B; every range returned has Start >= -1,
\* End >= -1 and Start <= End whenever both are >= 0.
C16_ParseBlockRangeContract ==
    op = "ParseBlockRange" =>
        LET s == arg.str
        IN /\ s = <<>> => ret = [err |-> FALSE, range |-> NilRange]
           /\ (s # <<>> /\ ~HasColon(s)) =>
                 IF GoodSide(s)
                 THEN ret = [err |-> FALSE,
                             range |-> BlockRange(NumberOf(s), NumberOf(s))]
                 ELSE ret = [err |-> TRUE]
           /\ HasColon(s) =>
                 LET a == SidesOf(s)[1]
                     b == SidesOf(s)[2]
                 IN IF /\ GoodSide(a)
                       /\ GoodSide(b)
                       /\ ~(a # <<>> /\ b # <<>> /\ NumberOf(a) > NumberOf(b))
                    THEN ret = [err |-> FALSE,
                                range |-> BlockRange(BoundOf(a), BoundOf(b))]
                    ELSE ret = [err |-> TRUE]
           /\ (~ret.err /\ ~ret.range.isnil) =>
                 /\ ret.range.Start >= -1
                 /\ ret.range.End >= -1
                 /\ (ret.range.Start >= 0 /\ ret.range.End >= 0)
                        => ret.range.Start <= ret.range.End

\* "5:" is parsed to (5,-1), and "5:1" is rejected
C16_Witness ==
    /\ op = "ParseBlockRange"
    /\ \/ arg.str = <<"5", ":">> /\ ret = [err |-> FALSE, range |-> BlockRange(5, -1)]
       \/ arg.str = <<"5", ":", "1">> /\ ret = [err |-> TRUE]

----------------------------------------------------------------------------
(* Properties of ReadBlockRange.                                           *)

\* the number of whole blocks of the file a call of ReadBlockRange names
BlocksOfFile == Len(files[arg.path])

\* a bound of the call's range is absent: no range, or the bound is -1
StartAbsent == arg.blockRange.isnil \/ arg.blockRange.Start = -1

EndAbsent == arg.blockRange.isnil \/ arg.blockRange.End = -1

\* blocks first through last of the file, last at most the last block
BlocksOfFileFrom(first, last) ==
    [i \in 1..((IF last < BlocksOfFile - 1 THEN last ELSE BlocksOfFile - 1)
               - first + 1) |-> files[arg.path][first + i]]

\* C17 as stated: ReadBlockRange on a file of T whole blocks with range
\* (start, end), an absent bound meaning 0 respectively T-1, returns exactly
\* the blocks start through min(end, T-1), and returns an error and no data
\* when a bound is negative, when start > end, or when start >= T.
C17_NegativeBoundIsRejected ==
    (op = "ReadBlockRange" /\ arg.path \in DOMAIN files) =>
        LET start == IF StartAbsent THEN 0 ELSE arg.blockRange.Start
            end == IF EndAbsent THEN BlocksOfFile - 1 ELSE arg.blockRange.End
        IN IF \/ (~StartAbsent /\ start < 0)
              \/ (~EndAbsent /\ end < 0)
              \/ start > end
              \/ start >= BlocksOfFile
           THEN ret = [err |-> TRUE]
           ELSE ret = [err |-> FALSE, data |-> BlocksOfFileFrom(start, end)]

\* C17 amended: a negative bound counts as absent; ReadBlockRange returns
\* exactly the blocks start through min(end, T-1), and returns an error and
\* no data when start > end or start >= T.
C17_NegativeBoundIsAbsent ==
    (op = "ReadBlockRange" /\ arg.path \in DOMAIN files) =>
        LET start == IF arg.blockRange.isnil \/ arg.blockRange.Start < 0
                     THEN 0 ELSE arg.blockRange.Start
            end == IF arg.blockRange.isnil \/ arg.blockRange.End < 0
                   THEN BlocksOfFile - 1 ELSE arg.blockRange.End
        IN IF start > end \/ start >= BlocksOfFile
           THEN ret = [err |-> TRUE]
           ELSE ret = [err |-> FALSE, data |-> BlocksOfFileFrom(start, end)]

\* the range (-2,0) on a file of two blocks returns block 0
C17_Witness ==
    /\ op = "ReadBlockRange"
    /\ arg.path \in DOMAIN files
    /\ BlocksOfFile = 2
    /\ arg.blockRange = BlockRange(-2, 0)
    /\ ret = [err |-> FALSE, data |-> <<files[arg.path][1]>>]

----------------------------------------------------------------------------
(* Properties of the OID-filenode map.                                     *)

\* the mappings of the map a lookup is made in
MappingsOfCall == arg.rm.Mappings

\* C18 as stated: for every mapping (oid, filenode) of a successfully parsed
\* map file, GetFilenode(oid) returns that mapping's filenode and
\* GetOID(filenode) returns that mapping's oid; a key that occurs in no
\* mapping yields 0.
C18_EveryMappingIsFound ==
    /\ op = "GetFilenode" =>
          /\ \A i \in 1..Len(MappingsOfCall) :
                 MappingsOfCall[i].OID = arg.oid => ret = MappingsOfCall[i].Filenode
          /\ (\A i \in 1..Len(MappingsOfCall) : MappingsOfCall[i].OID # arg.oid)
                 => ret = 0
    /\ op = "GetOID" =>
          /\ \A i \in 1..Len(MappingsOfCall) :
                 MappingsOfCall[i].Filenode = arg.filenode
                     => ret = MappingsOfCall[i].OID
          /\ (\A i \in 1..Len(MappingsOfCall) :
                 MappingsOfCall[i].Filenode # arg.filenode) => ret = 0

\* C18 amended: for every mapping that is the first in file order with its
\* oid, GetFilenode(oid) returns that mapping's filenode, and for every
\* mapping that is the first with its filenode, GetOID(filenode) returns that
\* mapping's oid; a key that occurs in no mapping yields 0.
C18_FirstMappingIsFound ==
    /\ op = "GetFilenode" =>
          /\ \A i \in 1..Len(MappingsOfCall) :
                 (/\ MappingsOfCall[i].OID = arg.oid
                  /\ \A j \in 1..(i - 1) : MappingsOfCall[j].OID # arg.oid)
                     => ret = MappingsOfCall[i].Filenode
          /\ (\A i \in 1..Len(MappingsOfCall) : MappingsOfCall[i].OID # arg.oid)
                 => ret = 0
    /\ op = "GetOID" =>
          /\ \A i \in 1..Len(MappingsOfCall) :
                 (/\ MappingsOfCall[i].Filenode = arg.filenode
                  /\ \A j \in 1..(i - 1) :
                         MappingsOfCall[j].Filenode # arg.filenode)
                     => ret = MappingsOfCall[i].OID
          /\ (\A i \in 1..Len(MappingsOfCall) :
                 MappingsOfCall[i].Filenode # arg.filenode) => ret = 0

\* a map file that maps OID 1259 twice: the lookup returns the first filenode
C18_Witness ==
    /\ op = "GetFilenode"
    /\ arg.oid = 1259
    /\ MappingsOfCall = <<RelMapping(1259, 16384), RelMapping(1259, 1262)>>
    /\ ret = 16384

\* the 32-bit field at byte offset off of the parsed buffer, as a signed
\* number
SignedFieldAt(off) ==
    LET b == [k \in 1..4 |-> arg.data[off + k]]
        low == b[1] + b[2] * 256 + b[3] * 256 * 256
               + (b[4] % 128) * 256 * 256 * 256
    IN IF b[4] >= 128 THEN (low - 2147483647) - 1 ELSE low

\* the buffer starts with the bytes 17 27 59 00, the magic 0x592717
StartsWithMagic ==
    /\ arg.data[1] = 23
    /\ arg.data[2] = 39
    /\ arg.data[3] = 89
    /\ arg.data[4] = 0

\* C19: ParseRelMapFile returns an error and no map when the buffer is
\* shorter than 512 bytes, when the little-endian magic at offset 0 differs
\* from 0x592717, or when the mapping count is outside [0, 62]; whenever it
\* succeeds, NumMappings is in [0, 62] and the mapping list has exactly
\* NumMappings entries, read in file order from offset 8.
C19_ParseRelMapFileContract ==
    op = "ParseRelMapFile" =>
        /\ Len(arg.data) < 512 => ret = [err |-> TRUE]
        /\ (Len(arg.data) >= 4 /\ ~StartsWithMagic) => ret = [err |-> TRUE]
        /\ (Len(arg.data) >= 8 /\ SignedFieldAt(4) \notin 0..62)
               => ret = [err |-> TRUE]
        /\ ~ret.err =>
               /\ ret.rm.NumMappings \in 0..62
               /\ ret.rm.NumMappings = SignedFieldAt(4)
               /\ Len(ret.rm.Mappings) = ret.rm.NumMappings
               /\ \A i \in 1..Len(ret.rm.Mappings) :
                      /\ ret.rm.Mappings[i].OID = SignedFieldAt(8 * i)
                      /\ ret.rm.Mappings[i].Filenode = SignedFieldAt(8 * i + 4)

\* a valid buffer of 512 bytes with a count of 62 is parsed to 62 mappings,
\* the two written to it first
C19_Witness ==
    /\ op = "ParseRelMapFile"
    /\ Len(arg.data) = 512
    /\ ~ret.err
    /\ ret.rm.NumMappings = 62
    /\ Len(ret.rm.Mappings) = 62
    /\ ret.rm.Mappings[1] = RelMapping(1262, 1262)
    /\ ret.rm.Mappings[2] = RelMapping(1259, 16384)
    /\ ret.rm.Mappings[62] = RelMapping(0, 0)

----------------------------------------------------------------------------
(* Properties of ParseBlockInfo.                                           *)

\* the two-byte header field at byte offset off of the page of the call
HeaderField(off) == arg.data[off + 1] + arg.data[off + 2] * 256

\* the call is on a page of 8192 bytes, not all zero, with lower >= 24 and
\* upper <= 8192
PageWithBoundsInRange ==
    /\ op = "ParseBlockInfo"
    /\ Len(arg.data) = 8192
    /\ \E i \in 1..8192 : arg.data[i] # 0
    /\ HeaderField(12) >= 24
    /\ HeaderField(14) <= 8192

\* C20 as stated: for every non-empty 8192-byte page whose header has
\* lower >= 24 and upper <= 8192, ParseBlockInfo reports
\* item_count = (lower - 24) / 4 and free_space = upper - lower.
C20_FreeSpaceIsUpperMinusLower ==
    PageWithBoundsInRange =>
        /\ ~ret.isnil
        /\ ret.ItemCount = (HeaderField(12) - 24) \div 4
        /\ ret.FreeSpace = HeaderField(14) - HeaderField(12)

\* C20 amended: for every such page, ParseBlockInfo reports
\* item_count = (lower - 24) / 4, and free_space = upper - lower when
\* upper >= lower, 0 when upper < lower.
C20_FreeSpaceIsNeverNegative ==
    PageWithBoundsInRange =>
        /\ ~ret.isnil
        /\ ret.ItemCount = (HeaderField(12) - 24) \div 4
        /\ HeaderField(14) >= HeaderField(12)
               => ret.FreeSpace = HeaderField(14) - HeaderField(12)
        /\ HeaderField(14) < HeaderField(12) => ret.FreeSpace = 0

\* a page with lower 28 and upper 26 is reported with one item and no free
\* space
C20_Witness ==
    /\ PageWithBoundsInRange
    /\ HeaderField(12) = 28
    /\ HeaderField(14) = 26
    /\ ret.ItemCount = 1
    /\ ret.FreeSpace = 0

----------------------------------------------------------------------------
(* The write-ahead log: pages of 8192 bytes, each a page header followed   *)
(* by records of a 24-byte header and block references.                    *)

WAL_MAGIC_16 == 53523

WAL_MAGIC_15 == 53520

WAL_MAGIC_14 == 53519

WAL_MAGIC_13 == 53517

WAL_MAGIC_12 == 53513

WALPageSize == 8192

XLogRecordSize == 24

ShortHeaderSize == 24

LongHeaderSize == 40

XLP_FIRST_IS_CONTRECORD == 1

XLP_LONG_HEADER == 2

\* value & flag # 0 for a flag that is a power of two
HasFlag(value, flag) == (value \div flag) % 2 = 1

\* binary.LittleEndian.Uint64(data[off : off+8]) as its two 32-bit halves
LittleEndianUint64(data, off) ==
    [hi |-> LittleEndianUint32(data, off + 4), lo |-> LittleEndianUint32(data, off)]

isValidMagic(magic) ==
    magic \in {WAL_MAGIC_16, WAL_MAGIC_15, WAL_MAGIC_14, WAL_MAGIC_13, WAL_MAGIC_12}

\* i < 8 && i < len(data) for the slice data[pos:]
isZeroPadding(data, pos) ==
    \A i \in 1..8 : pos + i <= Len(data) => data[pos + i] = 0

\* the continuation is skipped without rounding up to 8 bytes (bug)
align8Not(n) == n

\* (n + 7) &^ 7
align8(n) == ((n + 7) \div 8) * 8

RmgrNames ==
    <<"XLOG", "Transaction", "Storage", "CLOG", "Database", "Tablespace",
      "MultiXact", "RelMap", "Standby", "Heap2", "Heap", "BTree", "Hash", "GIN",
      "GiST", "Sequence", "SP-GiST", "BRIN", "CommitTS", "ReplOrigin", "Generic",
      "LogicalMsg">>

\* the name of a resource manager, fmt.Sprintf("RM_%d", rmid) if it has none
rmgrName(rmid) ==
    IF rmid < Len(RmgrNames) THEN RmgrNames[rmid + 1]
    ELSE [format |-> "RM_%d", rmid |-> rmid]

\* the operations of a resource manager by (info & mask) / 16; "" where the
\* switch has no case
OperationNames(rmid) ==
    CASE rmid = 10 -> <<"INSERT", "DELETE", "UPDATE", "TRUNCATE", "HOT_UPDATE",
                        "CONFIRM", "LOCK", "INPLACE">>
      [] rmid = 9 -> <<"PRUNE", "VACUUM", "FREEZE_PAGE", "VISIBLE",
                       "MULTI_INSERT", "LOCK_UPDATED", "NEW_CID">>
      [] rmid = 1 -> <<"COMMIT", "PREPARE", "ABORT", "COMMIT_PREPARED",
                       "ABORT_PREPARED", "ASSIGNMENT">>
      [] rmid = 0 -> <<"CHECKPOINT_SHUTDOWN", "CHECKPOINT_ONLINE", "NOOP",
                       "NEXTOID", "SWITCH", "BACKUP_END", "PARAMETER_CHANGE",
                       "RESTORE_POINT", "FPW_CHANGE", "END_OF_RECOVERY",
                       "OVERWRITE_CONTRECORD">>
      [] rmid = 2 -> <<"", "CREATE", "TRUNCATE">>
      [] rmid = 4 -> <<"CREATE", "DROP">>
      [] rmid = 11 -> <<"INSERT_LEAF", "INSERT_UPPER", "INSERT_META", "SPLIT_L",
                        "SPLIT_R", "", "DELETE", "UNLINK_PAGE">>
      [] OTHER -> <<>>

operationName(rmid, info) ==
    LET masked == IF rmid = 0 THEN info \div 16 ELSE (info % 128) \div 16
        names == OperationNames(rmid)
    IN IF masked < Len(names) /\ names[masked + 1] # "" THEN names[masked + 1]
       ELSE [format |-> "op_0x%02X", info |-> info]

parsePageHeader(data) ==
    LET info == u16(data, 2)
        long == HasFlag(info, XLP_LONG_HEADER) /\ Len(data) >= LongHeaderSize
    IN [Magic |-> u16(data, 0),
        Info |-> info,
        TimelineID |-> LittleEndianUint32(data, 4),
        PageAddr |-> LittleEndianUint64(data, 8),
        RemLen |-> LittleEndianUint32(data, 16),
        SystemID |-> IF long THEN LittleEndianUint64(data, 24)
                     ELSE [hi |-> 0, lo |-> 0],
        SegSize |-> IF long THEN LittleEndianUint32(data, 32) ELSE 0,
        BlockSize |-> IF long THEN LittleEndianUint32(data, 36) ELSE 0]

NilRelFileNode == [isnil |-> TRUE]

\* one pass of the loop of parseBlockRefs at position pos: whether the loop
\* stops there, and otherwise the position after the block reference and the
\* reference appended
parseBlockRefsIteration(data, pos, blocks) ==
    LET stopped == [stop |-> TRUE, pos |-> pos, blocks |-> blocks]
    IN IF pos >= Len(data) THEN stopped
       ELSE LET blockID == data[pos + 1]
                pos1 == pos + 1
            IN IF blockID = 255 \/ blockID = 254 THEN stopped
               ELSE IF blockID > 32 THEN stopped
               ELSE IF pos1 + 1 > Len(data) THEN stopped
               ELSE
                 LET forkFlags == data[pos1 + 1]
                     pos2 == pos1 + 1
                     hasImage == HasFlag(forkFlags, 16)
                     hasData == HasFlag(forkFlags, 32)
                     hasSameRel == HasFlag(forkFlags, 64)
                     hasRel == ~hasSameRel /\ pos2 + 12 <= Len(data)
                     pos3 == IF hasRel THEN pos2 + 12 ELSE pos2
                     hasNum == pos3 + 4 <= Len(data)
                     pos4 == IF hasNum THEN pos3 + 4 ELSE pos3
                     pos5 == IF hasImage /\ pos4 + 2 <= Len(data)
                             THEN pos4 + 2 + u16(data, pos4) ELSE pos4
                     pos6 == IF hasData /\ pos5 + 2 <= Len(data)
                             THEN pos5 + 2 + u16(data, pos5) ELSE pos5
                     block ==
                         [ID |-> blockID,
                          ForkNum |-> forkFlags % 16,
                          Flags |-> forkFlags,
                          RelFileNode |->
                              IF hasRel
                              THEN [isnil |-> FALSE,
                                    SpcOID |-> LittleEndianUint32(data, pos2),
                                    DbOID |-> LittleEndianUint32(data, pos2 + 4),
                                    RelOID |-> LittleEndianUint32(data, pos2 + 8)]
                              ELSE NilRelFileNode,
                          BlockNum |-> IF hasNum THEN LittleEndianUint32(data, pos3)
                                       ELSE 0]
                 IN [stop |-> FALSE, pos |-> pos6, blocks |-> Append(blocks, block)]

RECURSIVE parseBlockRefsFrom(_, _, _)
parseBlockRefsFrom(data, pos, blocks) ==
    LET it == parseBlockRefsIteration(data, pos, blocks)
    IN IF it.stop THEN blocks ELSE parseBlockRefsFrom(data, it.pos, it.blocks)

parseBlockRefs(data) == parseBlockRefsFrom(data, 0, <<>>)

\* parseXLogRecord(data[pos:], lsn): no record and 0 bytes consumed, or the
\* record and its total length
parseXLogRecord(data, pos, lsn) ==
    IF Len(data) - pos < XLogRecordSize THEN [isnil |-> TRUE, consumed |-> 0]
    ELSE LET totalLen == LittleEndianUint32(data, pos)
         IN IF totalLen < XLogRecordSize \/ totalLen > WALPageSize * 2
            THEN [isnil |-> TRUE, consumed |-> 0]
            ELSE [isnil |-> FALSE,
                  consumed |-> totalLen,
                  rec |-> [TotalLen |-> totalLen,
                           TransactionID |-> LittleEndianUint32(data, pos + 4),
                           PrevLSN |-> LittleEndianUint64(data, pos + 8),
                           Info |-> data[pos + 17],
                           ResourceMgr |-> data[pos + 18],
                           CRC |-> LittleEndianUint32(data, pos + 20),
                           LSN |-> lsn,
                           RMName |-> rmgrName(data[pos + 18]),
                           Operation |-> operationName(data[pos + 18], data[pos + 17]),
                           Blocks |->
                               IF /\ totalLen > XLogRecordSize
                                  /\ totalLen <= Len(data) - pos
                               THEN parseBlockRefs(SubSeq(data, pos + XLogRecordSize + 1,
                                                          pos + totalLen))
                               ELSE <<>>]]

\* the position of the first record of a page with the given header
FirstRecordPosition(header) ==
    LET headerSize0 == IF HasFlag(header.Info, XLP_LONG_HEADER)
                       THEN LongHeaderSize ELSE ShortHeaderSize
    IN IF HasFlag(header.Info, XLP_FIRST_IS_CONTRECORD) /\ header.RemLen > 0
       THEN align8(headerSize0 + header.RemLen)
       ELSE headerSize0

\* a pass that parses a record moves on by 8 bytes, not by the record's
\* length (bug)
parseWALPageIterationBy8(data, baseOffset, pos, records) ==
    LET stopped == [stop |-> TRUE, pos |-> pos, records |-> records]
    IN IF pos + XLogRecordSize > Len(data) THEN stopped
       ELSE IF isZeroPadding(data, pos) THEN stopped
       ELSE LET parsed == parseXLogRecord(data, pos, baseOffset + pos)
            IN IF parsed.consumed = 0 THEN stopped
               ELSE [stop |-> FALSE,
                     pos |-> align8(pos + 1),
                     records |-> IF parsed.isnil THEN records
                                 ELSE Append(records, parsed.rec)]

\* one pass of the loop of parseWALPage at position pos
parseWALPageIteration(data, baseOffset, pos, records) ==
    LET stopped == [stop |-> TRUE, pos |-> pos, records |-> records]
    IN IF pos + XLogRecordSize > Len(data) THEN stopped
       ELSE IF isZeroPadding(data, pos) THEN stopped
       ELSE LET parsed == parseXLogRecord(data, pos, baseOffset + pos)
            IN IF parsed.consumed = 0 THEN stopped
               ELSE [stop |-> FALSE,
                     pos |-> align8(pos + parsed.consumed),
                     records |-> IF parsed.isnil THEN records
                                 ELSE Append(records, parsed.rec)]

RECURSIVE parseWALPageFrom(_, _, _, _)
parseWALPageFrom(data, baseOffset, pos, records) ==
    LET it == parseWALPageIteration(data, baseOffset, pos, records)
    IN IF it.stop THEN records
       ELSE parseWALPageFrom(data, baseOffset, it.pos, it.records)

parseWALPage(data, baseOffset, pageNum) ==
    IF Len(data) < ShortHeaderSize THEN [err |-> TRUE]
    ELSE LET header == parsePageHeader(data)
         IN IF ~isValidMagic(header.Magic) THEN [err |-> TRUE]
            ELSE [err |-> FALSE,
                  records |-> parseWALPageFrom(data, baseOffset,
                                               FirstRecordPosition(header), <<>>)]

RECURSIVE ParseWALPagesUntilInvalid(_, _, _, _)
\* the loop leaves the file at the first page that fails to parse (bug)
ParseWALPagesUntilInvalid(data, offset, pageNum, records) ==
    IF offset + WALPageSize > Len(data) THEN records
    ELSE LET page == parseWALPage(SubSeq(data, offset + 1, offset + WALPageSize),
                                  offset, pageNum)
         IN IF page.err THEN records
            ELSE ParseWALPagesUntilInvalid(data, offset + WALPageSize, pageNum + 1,
                                           records \o page.records)

RECURSIVE ParseWALPagesFrom(_, _, _, _)
\* the loop of ParseWALFile over the whole pages of the file
ParseWALPagesFrom(data, offset, pageNum, records) ==
    IF offset + WALPageSize > Len(data) THEN records
    ELSE LET page == parseWALPage(SubSeq(data, offset + 1, offset + WALPageSize),
                                  offset, pageNum)
         IN IF page.err
            THEN ParseWALPagesFrom(data, offset + WALPageSize, pageNum, records)
            ELSE ParseWALPagesFrom(data, offset + WALPageSize, pageNum + 1,
                                   records \o page.records)

ParseWALFile(data) ==
    IF Len(data) < LongHeaderSize THEN [err |-> TRUE]
    ELSE [err |-> FALSE, records |-> ParseWALPagesFrom(data, 0, 0, <<>>)]

----------------------------------------------------------------------------
(* The WAL decoder as operations on pages and segment files written byte   *)
(* by byte.                                                                *)

MaxRemLen == 9

MaxWALRecords == 2

MaxWALPages == 2

MaxRefBytes == 4

\* the bytes of a record: total length, transaction 7, no previous record,
\* info, resource manager, padding, CRC, then the body and zeros up to the
\* next multiple of 8
RecordBytes(totalLen, info, rmid, body) ==
    LET bytes == LE32(totalLen) \o LE32(7) \o Zeros(8) \o <<info, rmid, 0, 0>>
                 \o LE32(0) \o body
    IN bytes \o Zeros((8 - (Len(bytes) % 8)) % 8)

\* the records written to pages: a heap insert without block references, a
\* commit, a heap update whose block reference (with relation and block
\* number) declares an image of 65535 bytes, and a record with a total
\* length of 5
WrittenRecord(kind) ==
    CASE kind = "insert" -> RecordBytes(24, 0, 10, <<>>)
      [] kind = "commit" -> RecordBytes(24, 0, 1, <<>>)
      [] kind = "update" ->
             RecordBytes(46, 32, 10,
                         <<0, 16>> \o LE32(1663) \o LE32(16384) \o LE32(16385)
                         \o LE32(3) \o <<255, 255>> \o <<255, 0>>)
      [] OTHER -> RecordBytes(5, 0, 10, <<>>)

RecordKinds == {"insert", "commit", "update", "corrupt"}

RECURSIVE WrittenRecords(_)
WrittenRecords(kinds) ==
    IF kinds = <<>> THEN <<>>
    ELSE WrittenRecord(Head(kinds)) \o WrittenRecords(Tail(kinds))

\* a page of 8192 bytes: the short or long header, remLen bytes of a
\* continued record (when the page is flagged as continuing one) and zeros up
\* to the next multiple of 8, the records, and zeros
WALPage(magic, info, remLen, kinds) ==
    LET header == LE16(magic) \o LE16(info) \o LE32(1) \o Zeros(8) \o LE32(remLen)
                  \o Zeros(4)
                  \o (IF (info \div 2) % 2 = 1 THEN Zeros(8) \o LE32(16777216)
                                                    \o LE32(8192)
                      ELSE <<>>)
        cont == IF info % 2 = 1 /\ remLen < 100
                THEN [i \in 1..remLen |-> 170] \o Zeros((8 - (remLen % 8)) % 8)
                ELSE <<>>
        bytes == header \o cont \o WrittenRecords(kinds)
    IN bytes \o Zeros(8192 - Len(bytes))

RemLens == {0, 1, MaxRemLen - 1, MaxRemLen, 8200}

WALPages ==
    {WALPage(WAL_MAGIC_16, info, remLen, kinds) :
        info \in 0..3, remLen \in RemLens,
        kinds \in SeqsUpTo(RecordKinds, MaxWALRecords)}
    \cup {WALPage(magic, 1, 1, <<"insert">>) :
              magic \in {WAL_MAGIC_15, WAL_MAGIC_14, WAL_MAGIC_13, WAL_MAGIC_12, 0}}

\* the pages whose loop is followed pass by pass
WALLoopPages ==
    {WALPage(WAL_MAGIC_16, info, 1, kinds) :
        info \in {0, 3}, kinds \in SeqsUpTo(RecordKinds, MaxWALRecords)}

\* segment files: up to MaxWALPages pages, complete but for a last one that
\* may be cut short
WALFilePages ==
    {WALPage(WAL_MAGIC_16, 2, 0, <<"insert", "commit">>),
     WALPage(WAL_MAGIC_16, 0, 0, <<"update", "corrupt", "commit">>),
     WALPage(0, 0, 0, <<"insert">>),
     WALPage(WAL_MAGIC_13, 1, 3, <<"commit">>)}

RECURSIVE ConcatPages(_)
ConcatPages(pages) ==
    IF pages = <<>> THEN <<>> ELSE Head(pages) \o ConcatPages(Tail(pages))

WALFiles ==
    {ConcatPages(pages) \o tail :
        pages \in SeqsUpTo(WALFilePages, MaxWALPages),
        tail \in {<<>>, SubSeq(WALPage(WAL_MAGIC_16, 0, 0, <<"insert">>), 1, 100)}}
    \cup {<<19, 209>>}

\* the bytes block references are parsed from
RefBytes == {0, 16, 32, 33, 64, 254}

parseWALPageCall ==
    /\ Idle
    /\ \E data \in WALPages, baseOffset \in {0, 8192} :
        Called("parseWALPage", [data |-> data, baseOffset |-> baseOffset],
               parseWALPage(data, baseOffset, 0))
    /\ reads' = {}
    /\ UNCHANGED <<files, reader>>

ParseWALFileCall ==
    /\ Idle
    /\ \E data \in WALFiles :
        Called("ParseWALFile", [data |-> data], ParseWALFile(data))
    /\ reads' = {}
    /\ UNCHANGED <<files, reader>>

\* parseWALPage on a page with a known magic, up to its loop
parseWALPageEnter ==
    /\ Idle
    /\ \E data \in WALLoopPages :
        Called("parseWALPage.loop", [data |-> data, baseOffset |-> 0],
               [running |-> TRUE,
                pos |-> FirstRecordPosition(parsePageHeader(data)),
                records |-> <<>>])
    /\ reads' = {}
    /\ UNCHANGED <<files, reader>>

\* one pass of the loop of parseWALPage
parseWALPageStep ==
    /\ op = "parseWALPage.loop"
    /\ ret.running
    /\ LET it == parseWALPageIteration(arg.data, arg.baseOffset, ret.pos, ret.records)
       IN ret' = [running |-> ~it.stop, pos |-> it.pos, records |-> it.records]
    /\ UNCHANGED <<files, reader, reads, op, arg, Debug>>

\* parseBlockRefs on the body of a record, up to its loop
parseBlockRefsEnter ==
    /\ Idle
    /\ \E data \in SeqsUpTo(RefBytes, MaxRefBytes) :
        Called("parseBlockRefs.loop", [data |-> data],
               [running |-> TRUE, pos |-> 0, blocks |-> <<>>])
    /\ reads' = {}
    /\ UNCHANGED <<files, reader>>

\* one pass of the loop of parseBlockRefs
parseBlockRefsStep ==
    /\ op = "parseBlockRefs.loop"
    /\ ret.running
    /\ LET it == parseBlockRefsIteration(arg.data, ret.pos, ret.blocks)
       IN ret' = [running |-> ~it.stop, pos |-> it.pos, blocks |-> it.blocks]
    /\ UNCHANGED <<files, reader, reads, op, arg, Debug>>

\* a loop that has stopped returns; so does every finished call
ReturnFromWAL ==
    /\ op \in {"parseWALPage.loop", "parseBlockRefs.loop"} => ~ret.running
    /\ Return

InitWAL ==
    /\ files = NoFiles
    /\ reader = NewTOASTReader
    /\ reads = {}
    /\ op = "idle"
    /\ Debug = FALSE
    /\ arg = <<>>
    /\ ret = <<>>

NextWAL ==
    \/ parseWALPageCall
    \/ ParseWALFileCall
    \/ parseWALPageEnter
    \/ parseWALPageStep
    \/ parseBlockRefsEnter
    \/ parseBlockRefsStep
    \/ ReturnFromWAL

SpecWAL == InitWAL /\ [][NextWAL]_vars

\* the loops are scheduled: a loop that can make a pass makes it
FairSpecWAL ==
    SpecWAL /\ WF_vars(parseWALPageStep) /\ WF_vars(parseBlockRefsStep)
            /\ WF_vars(ReturnFromWAL)

----------------------------------------------------------------------------
(* Properties of the WAL decoder.                                          *)

\* the smallest multiple of 8 that is not below n
RoundedUpTo8(n) == CHOOSE m \in n..(n + 7) : m % 8 = 0

\* the page of a parseWALPage call has a known magic and is flagged as
\* starting with the rest of a record
ContinuedPage ==
    /\ op = "parseWALPage"
    /\ arg.data[1] + 256 * arg.data[2] \in {53523, 53520, 53519, 53517, 53513}
    /\ arg.data[3] % 2 = 1

\* the in-page offset where the first record of a continued page lies:
\* header size (40 with the long-header flag, 24 without) plus the remaining
\* length, rounded up to 8
OffsetAfterContinuation ==
    RoundedUpTo8((IF (arg.data[3] \div 2) % 2 = 1 THEN 40 ELSE 24)
                 + arg.data[17] + 256 * arg.data[18] + 65536 * arg.data[19])

\* the page holds a well-formed record header at in-page offset off
RecordWrittenAt(off) ==
    /\ off + 24 <= 8192
    /\ arg.data[off + 1] + 256 * arg.data[off + 2] >= 24
    /\ arg.data[off + 1] + 256 * arg.data[off + 2] <= 16384
    /\ arg.data[off + 3] = 0
    /\ arg.data[off + 4] = 0

\* C21: on a WAL page with a known magic, the first-record-is-continuation
\* flag and remaining_length = k, the first record the decoder parses starts
\* at in-page offset align8(header_size + k), header_size being 40 with the
\* long-header flag and 24 without; a record written there is parsed.
C21_FirstRecordAfterContinuation ==
    ContinuedPage =>
        /\ ~ret.err
        /\ ret.records # <<>> =>
               ret.records[1].LSN - arg.baseOffset = OffsetAfterContinuation
        /\ RecordWrittenAt(OffsetAfterContinuation) => ret.records # <<>>

\* a page with a long header and 9 bytes of a continued record: the first
\* record is the one at offset 56
C21_Witness ==
    /\ ContinuedPage
    /\ (arg.data[3] \div 2) % 2 = 1
    /\ arg.data[17] = 9
    /\ arg.baseOffset = 8192
    /\ Len(ret.records) = 2
    /\ ret.records[1].LSN = 8192 + 56
    /\ ret.records[1].Operation = "INSERT"

\* the i-th complete page of the file of a ParseWALFile call, i from 0
PageOfFile(i) == SubSeq(arg.data, 8192 * i + 1, 8192 * i + 8192)

\* the records of page i parsed on its own, its bytes being at file offset
\* 8192 * i; none if its magic is unknown
RecordsOfPage(i) ==
    LET page == PageOfFile(i)
    IN IF page[1] + 256 * page[2] \in {53523, 53520, 53519, 53517, 53513}
       THEN parseWALPage(page, 8192 * i, i).records
       ELSE <<>>

RECURSIVE RecordsOfPagesBelow(_)
\* the records of pages 0 .. n-1, in page order
RecordsOfPagesBelow(n) ==
    IF n = 0 THEN <<>> ELSE RecordsOfPagesBelow(n - 1) \o RecordsOfPage(n - 1)

\* C22: ParseWALFile returns the concatenation, in page order, of the records
\* of each complete 8192-byte page parsed independently; a page with an
\* unknown magic contributes no records and a parse failure inside a page
\* ends that page only.
C22_ParseWALFileConcatenatesPages ==
    op = "ParseWALFile" /\ Len(arg.data) >= 40 =>
        /\ ~ret.err
        /\ ret.records = RecordsOfPagesBelow(Len(arg.data) \div 8192)

\* a file of two pages and a cut-off third: the first page has an unknown
\* magic, the second breaks off at a record of total length 5 after one
\* record, and the record before it is returned
C22_Witness ==
    /\ op = "ParseWALFile"
    /\ Len(arg.data) = 2 * 8192 + 100
    /\ arg.data[1] = 0
    /\ arg.data[8192 + 1] + 256 * arg.data[8192 + 2] = 53523
    /\ arg.data[8192 + 72 + 1] = 5
    /\ Len(ret.records) = 1
    /\ ret.records[1].LSN = 8192 + 24
    /\ ret.records[1].Operation = "UPDATE"

\* a pass of the loop of parseWALPage stops the loop or moves the position
\* forward by 24 bytes or more
PagePassAdvances ==
    op = "parseWALPage.loop" /\ op' = op /\ ret.running /\ ret' # ret =>
        ~ret'.running \/ ret'.pos >= ret.pos + 24

\* a pass of the loop of parseBlockRefs stops the loop or moves the position
\* forward by a byte or more
BlockRefPassAdvances ==
    op = "parseBlockRefs.loop" /\ op' = op /\ ret.running /\ ret' # ret =>
        ~ret'.running \/ ret'.pos >= ret.pos + 1

\* a loop whose position has reached the end of its input stops at its next
\* pass
PassAtEndStops ==
    /\ op = "parseWALPage.loop" /\ op' = op /\ ret.running /\ ret' # ret
           /\ ret.pos + 24 > Len(arg.data) => ~ret'.running
    /\ op = "parseBlockRefs.loop" /\ op' = op /\ ret.running /\ ret' # ret
           /\ ret.pos >= Len(arg.data) => ~ret'.running

\* C30: WAL decoding terminates on every input: each pass of the loop of
\* parseWALPage stops or advances the in-page position by at least 24 bytes,
\* each pass of the loop of parseBlockRefs stops or advances by at least one
\* byte, and every loop that is entered comes to its end, also when a declared
\* image or data length points past the record.
C30_WALDecodingTerminates ==
    /\ [][PagePassAdvances /\ BlockRefPassAdvances /\ PassAtEndStops]_vars
    /\ (op \in {"parseWALPage.loop", "parseBlockRefs.loop"})
           ~> (op \in {"parseWALPage.loop", "parseBlockRefs.loop"} /\ ~ret.running)

\* the loop of parseBlockRefs has ended after a block reference whose
\* declared image length (8481) led the position past the 4 bytes of input
C30_Witness ==
    /\ op = "parseBlockRefs.loop"
    /\ ~ret.running
    /\ Len(arg.data) = 4
    /\ ret.pos = 4 + 8481
    /\ Len(ret.blocks) = 1

----------------------------------------------------------------------------
(* The pg_wal directory: GetRecentWALRecords lists it, sorts the names of  *)
(* the segment files and parses them from the newest back.  File names are *)
(* sequences of character codes.                                           *)

MaxWALFiles == 3

MaxLimit == 3

\* a < b for strings compared byte by byte
RECURSIVE StringLess(_, _)
StringLess(a, b) ==
    IF b = <<>> THEN FALSE
    ELSE IF a = <<>> THEN TRUE
    ELSE IF Head(a) # Head(b) THEN Head(a) < Head(b)
    ELSE StringLess(Tail(a), Tail(b))

RECURSIVE SortStrings(_)
\* sort.Strings of a set of distinct names
SortStrings(names) ==
    IF names = {} THEN <<>>
    ELSE LET least == CHOOSE a \in names :
                          \A b \in names : a = b \/ StringLess(a, b)
         IN <<least>> \o SortStrings(names \ {least})

\* ".history"
HistorySuffix == <<46, 104, 105, 115, 116, 111, 114, 121>>

\* strings.HasSuffix(s, suffix)
HasSuffix(s, suffix) ==
    /\ Len(s) >= Len(suffix)
    /\ SubSeq(s, Len(s) - Len(suffix) + 1, Len(s)) = suffix

\* the names of the directory that are taken for segment files, sorted
walFilesOf(dir) ==
    SortStrings({name \in DOMAIN dir.entries :
                    /\ ~dir.entries[name].isDir
                    /\ Len(name) = 24
                    /\ ~HasSuffix(name, HistorySuffix)})

\* allRecords after one pass of the loop over the segment files: the records
\* of the file go before the ones collected so far; a file that cannot be read
\* or parsed is passed over
RecordsWith(readable, parsed, allRecords) ==
    IF ~readable \/ parsed.err THEN allRecords
    ELSE parsed.records \o allRecords

RECURSIVE RecentRecordsFrom(_, _, _, _, _)
\* the loop over walFiles[i], i counted from 1, from the newest file back
RecentRecordsFrom(dir, walFiles, i, limit, allRecords) ==
    IF ~(i >= 1 /\ Len(allRecords) < limit) THEN allRecords
    ELSE RecentRecordsFrom(dir, walFiles, i - 1, limit,
                           RecordsWith(dir.entries[walFiles[i]].readable,
                                       ParseWALFile(dir.entries[walFiles[i]].data),
                                       allRecords))

\* allRecords[len(allRecords)-limit:], a run-time panic when the lower index
\* is above the length
LastRecords(allRecords, limit) ==
    LET low == Len(allRecords) - limit
    IN IF low < 0 \/ low > Len(allRecords) THEN Panic
       ELSE [panic |-> FALSE, err |-> FALSE,
             records |-> SubSeq(allRecords, low + 1, Len(allRecords))]

\* the end of GetRecentWALRecords: the records collected, cut to the last
\* limit of them when there are more
TrimmedRecords(allRecords, limit) ==
    IF Len(allRecords) > limit THEN LastRecords(allRecords, limit)
    ELSE [panic |-> FALSE, err |-> FALSE, records |-> allRecords]

GetRecentWALRecords(dir, limit) ==
    IF ~dir.exists THEN [panic |-> FALSE, err |-> TRUE]
    ELSE LET walFiles == walFilesOf(dir)
         IN TrimmedRecords(
                RecentRecordsFrom(dir, walFiles, Len(walFiles), limit, <<>>),
                limit)

\* "00000001000000000000000" and the digit i
SegmentName(i) == [k \in 1..24 |-> IF k = 8 THEN 49 ELSE IF k = 24 THEN 48 + i ELSE 48]

\* "0000000100000000.history", of 24 characters
HistoryName == [k \in 1..16 |-> IF k = 8 THEN 49 ELSE 48] \o HistorySuffix

\* "archive_status_000000000", of 24 characters
StatusDirName ==
    <<97, 114, 99, 104, 105, 118, 101, 95, 115, 116, 97, 116, 117, 115, 95>>
    \o [k \in 1..9 |-> 48]

\* a segment file of one page with an insert and a commit
TwoRecordSegment == WALPage(WAL_MAGIC_16, 2, 0, <<"insert", "commit">>)

\* a segment file of one page with a commit
OneRecordSegment == WALPage(WAL_MAGIC_15, 0, 0, <<"commit">>)

\* a timeline history file: here a page with an update
HistoryFile == WALPage(WAL_MAGIC_16, 2, 0, <<"update">>)

\* what a segment file can hold: one of the two pages, 10 bytes, or nothing
\* that can be read
SegmentContents ==
    {[isDir |-> FALSE, readable |-> TRUE, data |-> TwoRecordSegment],
     [isDir |-> FALSE, readable |-> TRUE, data |-> OneRecordSegment],
     [isDir |-> FALSE, readable |-> TRUE, data |-> Zeros(10)],
     [isDir |-> FALSE, readable |-> FALSE, data |-> <<>>]}

\* a segment file that is not in the directory
NoSegment == [isDir |-> FALSE, readable |-> FALSE, data |-> <<0>>]

\* a pg_wal directory: segment files out of the first MaxWALFiles names, a
\* timeline history file and a subdirectory, both with names of 24 characters
WALDirectories ==
    {[exists |-> FALSE, entries |-> NoFiles]}
    \cup {[exists |-> TRUE,
           entries |-> [name \in {SegmentName(i) : i \in {k \in 1..MaxWALFiles :
                                                             contents[k] # NoSegment}}
                                 \cup {HistoryName, StatusDirName} |->
                           IF name = HistoryName
                           THEN [isDir |-> FALSE, readable |-> TRUE,
                                 data |-> HistoryFile]
                           ELSE IF name = StatusDirName
                           THEN [isDir |-> TRUE, readable |-> FALSE, data |-> <<>>]
                           ELSE contents[name[24] - 48]]] :
              contents \in [1..MaxWALFiles -> SegmentContents \cup {NoSegment}]}

GetRecentWALRecordsCall ==
    /\ Idle
    /\ \E limit \in -1..MaxLimit :
        Called("GetRecentWALRecords", [limit |-> limit],
               GetRecentWALRecords(files, limit))
    /\ reads' = {}
    /\ UNCHANGED <<files, reader>>

InitWALDir ==
    /\ files \in WALDirectories
    /\ reader = NewTOASTReader
    /\ reads = {}
    /\ op = "idle"
    /\ Debug = FALSE
    /\ arg = <<>>
    /\ ret = <<>>

NextWALDir ==
    \/ GetRecentWALRecordsCall
    \/ Return

SpecWALDir == InitWALDir /\ [][NextWALDir]_vars

RECURSIVE RecordsOfSegments(_)
\* the records of the readable, parsable segment files named by the sorted
\* sequence of names, file after file
RecordsOfSegments(names) ==
    IF names = <<>> THEN <<>>
    ELSE LET entry == files.entries[Head(names)]
         IN (IF entry.readable /\ Len(entry.data) >= 40
             THEN ParseWALFile(entry.data).records ELSE <<>>)
            \o RecordsOfSegments(Tail(names))

\* the records of the directory in segment name order, then in-file order
RecordsOfDirectory ==
    RecordsOfSegments(SortStrings({SegmentName(i) : i \in 1..9}
                                  \cap DOMAIN files.entries))

\* C29: for every integer limit, 0 and negative ones included,
\* GetRecentWALRecords completes without a run-time fault and returns at most
\* max(limit, 0) records; for limit > 0 they are the last records of the WAL
\* directory in segment-name, then in-file order.
C29_AnyLimitIsServed ==
    op = "GetRecentWALRecords" =>
        /\ ~ret.panic
        /\ ~ret.err =>
            /\ Len(ret.records) <= (IF arg.limit > 0 THEN arg.limit ELSE 0)
            /\ arg.limit > 0 =>
                   LET all == RecordsOfDirectory
                       n == IF Len(all) < arg.limit THEN Len(all) ELSE arg.limit
                   IN ret.records = SubSeq(all, Len(all) - n + 1, Len(all))

\* the part of C29 that the code keeps: a limit of 0 or more is served
\* without a fault, with the last records in order
C29_NonNegativeLimitIsServed ==
    op = "GetRecentWALRecords" /\ arg.limit >= 0 => C29_AnyLimitIsServed

\* C29: a call with limit -1 has ended in a run-time panic
C29_NegativeLimitPanics ==
    /\ op = "GetRecentWALRecords"
    /\ arg.limit = -1
    /\ files.exists
    /\ ret.panic

----------------------------------------------------------------------------
(* The reader-based entry point.  RemoteDump reads the cluster through a   *)
(* function from relative paths to contents; here the reader serves the    *)
(* files of the cluster directory.  PG_VERSION and global/pg_control are   *)
(* the paths <<"PG_VERSION", 0, 0>> and <<"global/pg_control", 0, 0>>.     *)

RemoteOptions(credentials, databases, tables, controlFile, excludeDBs) ==
    [isnil |-> FALSE, Credentials |-> credentials, Databases |-> databases,
     Tables |-> tables, ControlFile |-> controlFile, ExcludeDBs |-> excludeDBs]

\* a nil *RemoteOptions
NilRemoteOptions == [isnil |-> TRUE]

DefaultRemoteOptions ==
    RemoteOptions(TRUE, TRUE, <<>>, TRUE,
                  <<<<"t", "e", "m", "p", "l", "a", "t", "e", "0">>,
                    <<"t", "e", "m", "p", "l", "a", "t", "e", "1">>>>)

CredentialsOnly == RemoteOptions(TRUE, FALSE, <<>>, FALSE, <<>>)

\* strings.EqualFold for names of ASCII letters
EqualFold(s, t) == ToLower(s) = ToLower(t)

shouldSkipDB(name, exclude) ==
    \E i \in 1..Len(exclude) :
        EqualFold(name, exclude[i]) \/ HasPrefix(name, exclude[i])

containsTable(tables, name) ==
    \E i \in 1..Len(tables) : EqualFold(tables[i], name)

\* the reader: the file at the path, or an error
RemoteReader(fs, path) == osReadFile(fs, path)

\* the contents a failed read leaves in classData and attrData: no bytes,
\* which hold no rows
DataOrNothing(read, nothing) == IF read.err THEN nothing ELSE read.data

\* the DBResult of one database
RemoteDumpDatabase(fs, db, opts) ==
    LET classData == DataOrNothing(RemoteReader(fs, BasePath(db.OID, 1259)),
                                   EmptyClassFile)
        attrData == DataOrNothing(RemoteReader(fs, BasePath(db.OID, 1249)),
                                  EmptyAttrFile)
        fileReader == [f \in DOMAIN ParsePGClass(classData) |->
                          RemoteReader(fs, BasePath(db.OID, f))]
        dump == DumpDatabaseFromFiles(classData, attrData, fileReader, NilOptions)
    IN [Name |-> db.Name, OID |-> db.OID,
        Tables |-> {[Name |-> t.Name, OID |-> t.OID, RowCount |-> Len(t.Rows),
                     Rows |-> t.Rows] :
                       t \in {u \in dump.Tables :
                                 ~(Len(opts.Tables) > 0
                                   /\ ~containsTable(opts.Tables, u.Name))}}]

RemoteDump(fs, opts0) ==
    LET opts == IF opts0.isnil THEN DefaultRemoteOptions ELSE opts0
        version == RemoteReader(fs, <<"PG_VERSION", 0, 0>>)
        control == RemoteReader(fs, <<"global/pg_control", 0, 0>>)
        authid == RemoteReader(fs, GlobalPath(1260))
        dbRead == RemoteReader(fs, GlobalPath(1262))
        databases == IF opts.Databases /\ ~dbRead.err
                     THEN SelectSeq(ParsePGDatabase(dbRead.data),
                                    LAMBDA db : ~shouldSkipDB(db.Name, opts.ExcludeDBs))
                     ELSE <<>>
    IN [err |-> FALSE,
        Version |-> DataOrNothing(version, <<>>),
        Control |-> IF opts.ControlFile THEN DataOrNothing(control, <<>>) ELSE <<>>,
        Credentials |-> IF opts.Credentials THEN DataOrNothing(authid, <<>>) ELSE <<>>,
        Databases |-> [i \in 1..Len(databases) |->
                          RemoteDumpDatabase(fs, databases[i], opts)]]

\* the paths RemoteDump passes to the reader
RemoteDumpReads(fs, opts0) ==
    LET opts == IF opts0.isnil THEN DefaultRemoteOptions ELSE opts0
        dbRead == RemoteReader(fs, GlobalPath(1262))
        databases == IF opts.Databases /\ ~dbRead.err
                     THEN SelectSeq(ParsePGDatabase(dbRead.data),
                                    LAMBDA db : ~shouldSkipDB(db.Name, opts.ExcludeDBs))
                     ELSE <<>>
    IN {<<"PG_VERSION", 0, 0>>}
       \cup (IF opts.ControlFile THEN {<<"global/pg_control", 0, 0>>} ELSE {})
       \cup (IF opts.Credentials THEN {GlobalPath(1260)} ELSE {})
       \cup (IF opts.Databases THEN {GlobalPath(1262)} ELSE {})
       \cup UNION {{BasePath(databases[i].OID, 1259), BasePath(databases[i].OID, 1249)}
                   \cup {BasePath(databases[i].OID, f) :
                            f \in DumpDatabaseFromFilesReads(
                                      DataOrNothing(
                                          RemoteReader(fs, BasePath(databases[i].OID, 1259)),
                                          EmptyClassFile),
                                      NilOptions)} :
                      i \in 1..Len(databases)}

\* the intact cluster with the catalogs of database 1 in place and that
\* database under another name
ClusterWithDatabaseOne(name) ==
    [p \in DOMAIN IntactCluster \cup {BasePath(1, 1259), BasePath(1, 1249)} |->
        CASE p = GlobalPath(1262) ->
                 [kind |-> "pg_database",
                  dbs |-> <<DatabaseInfo(1, name), DatabaseInfo(16384, TestDB),
                            DatabaseInfo(5, Postgres)>>]
          [] p = BasePath(1, 1259) -> EmptyClassFile
          [] p = BasePath(1, 1249) -> EmptyAttrFile
          [] OTHER -> IntactCluster[p]]

\* template1, template_gis, TEMPLATE1, template10 and tmpl
DatabaseOneNames ==
    {Template1,
     <<"t", "e", "m", "p", "l", "a", "t", "e", "_", "g", "i", "s">>,
     <<"T", "E", "M", "P", "L", "A", "T", "E", "1">>,
     <<"t", "e", "m", "p", "l", "a", "t", "e", "1", "0">>,
     <<"t", "m", "p", "l">>}

FlavourClusters ==
    Clusters \cup {ClusterWithDatabaseOne(name) : name \in DatabaseOneNames}

RemoteOptionsChoices ==
    {NilRemoteOptions, DefaultRemoteOptions, CredentialsOnly,
     RemoteOptions(FALSE, TRUE, <<<<"U", "S", "E", "R", "S">>>>, FALSE, <<>>),
     RemoteOptions(FALSE, TRUE, <<>>, FALSE, <<TestDB>>)}

RemoteDumpCall ==
    /\ Idle
    /\ \E opts \in RemoteOptionsChoices :
        /\ Called("RemoteDump", [opts |-> opts], RemoteDump(files, opts))
        /\ reads' = RemoteDumpReads(files, opts)
        /\ files' = FilesAfterReads(files, RemoteDumpReads(files, opts))
    /\ UNCHANGED reader

InitFlavours ==
    /\ files \in FlavourClusters
    /\ reads = {}
    /\ reader = NewTOASTReader
    /\ op = "idle"
    /\ Debug = FALSE
    /\ arg = <<>>
    /\ ret = <<>>

NextFlavours ==
    \/ DumpDataDirCall
    \/ RemoteDumpCall
    \/ Return

SpecFlavours == InitFlavours /\ [][NextFlavours]_vars

\* the databases of a dump as a set, each with its name, OID and tables, each
\* table with its name, OID and rows
DatabasesOf(databases) ==
    {[Name |-> databases[i].Name, OID |-> databases[i].OID,
      Tables |-> {[Name |-> t.Name, OID |-> t.OID, Rows |-> t.Rows] :
                     t \in databases[i].Tables}] : i \in 1..Len(databases)}

\* RemoteDump with default options and DumpDataDir with nil options return
\* the same databases, tables and rows for the cluster
FlavoursAgree ==
    LET local == DumpDataDir(files, NilOptions)
    IN /\ ~local.err
       /\ DatabasesOf(ret.Databases) = DatabasesOf(local.Databases)

\* C23: the two flavours of the top-level dump agree: for the same cluster
\* contents RemoteDump with default options over a reader that serves the
\* directory's files and DumpDataDir with nil options return the same set of
\* databases and, for each database, the same tables with the same rows.
C23_FlavoursAgree ==
    op = "RemoteDump" /\ arg.opts \in {NilRemoteOptions, DefaultRemoteOptions}
        => FlavoursAgree

\* the two flavours agree on the clusters where every catalog file is in
\* place and no database name starts with "template" but template0 and
\* template1 in lower case
C23_FlavoursAgreeOnPlainClusters ==
    /\ op = "RemoteDump"
    /\ arg.opts \in {NilRemoteOptions, DefaultRemoteOptions}
    /\ files \in {IntactCluster,
                  Without(IntactCluster, {BasePath(16384, 16385), BasePath(16384, 16500)}),
                  ClusterWithDatabaseOne(Template1),
                  ClusterWithDatabaseOne(<<"t", "m", "p", "l">>)}
    => FlavoursAgree

\* C23: RemoteDump has dumped the database template_gis, which DumpDataDir
\* leaves out
C23_TemplateNamesDiffer ==
    /\ op = "RemoteDump"
    /\ arg.opts = NilRemoteOptions
    /\ \E i \in 1..Len(ret.Databases) : ret.Databases[i].OID = 1
    /\ ~DumpDataDir(files, NilOptions).err
    /\ \A i \in 1..Len(DumpDataDir(files, NilOptions).Databases) :
           DumpDataDir(files, NilOptions).Databases[i].OID # 1

----------------------------------------------------------------------------
(* Properties of the alignment of columns.                                 *)

\* the column of a ColAlign call has no alignment in the schema and a type
\* that the table of typeAlign does not have
UnknownAlignment ==
    /\ op = "ColAlign"
    /\ arg.col.Align \notin {"c", "s", "i", "d"}
    /\ arg.col.TypID = "OidUnknown"

\* the value at the offset of the call starts with a 1-byte varlena header
StartsWithShortHeader ==
    /\ arg.offset < Len(arg.data)
    /\ arg.data[arg.offset + 1] % 2 = 1
    /\ arg.data[arg.offset + 1] # 1

\* the largest of 1, 2, 4 and 8 that is not above n, 1 if there is none
LargestAlignmentUpTo(n) ==
    IF n < 2 THEN 1
    ELSE CHOOSE a \in {1, 2, 4, 8} :
             a <= n /\ \A b \in {1, 2, 4, 8} : b <= n => b <= a

\* the smallest power of two that is not below n
SmallestPowerOfTwoFrom(n) ==
    CHOOSE a \in {1, 2, 4, 8, 16, 32, 64} :
        a >= n /\ \A b \in {1, 2, 4, 8, 16, 32, 64} : b >= n => a <= b

\* C24: for a column whose schema alignment is unknown and whose type
\* identifier is not in the known-type table the decoder uses alignment 4 when
\* the column is variable-length and otherwise the smallest power of two that
\* is >= length.
C24_FallbackRoundsUp ==
    UnknownAlignment =>
        ret = IF arg.col.Len = -1 THEN 4 ELSE SmallestPowerOfTwoFrom(arg.col.Len)

\* C24 (amended): for such a column the decoder uses, when the column is
\* variable-length, alignment 4, or 1 if the value starts with a 1-byte
\* varlena header, and otherwise the largest of 1, 2, 4 and 8 that is
\* <= length (1 for a length below 2).
C24_FallbackRoundsDown ==
    UnknownAlignment =>
        ret = IF arg.col.Len = -1
              THEN (IF StartsWithShortHeader THEN 1 ELSE 4)
              ELSE LargestAlignmentUpTo(arg.col.Len)

\* a column of length 5 and unknown type and alignment is aligned to 4
C24_Witness ==
    /\ UnknownAlignment
    /\ arg.col.Len = 5
    /\ ret = 4


----------------------------------------------------------------------------
(* Sequence files: one heap page whose special area starts with the magic  *)
(* 0x1717 and whose first item is the tuple with the sequence's values.    *)
(* 64-bit values are kept as their two 32-bit halves.                      *)

SequenceMagic == 5911

\* a special offset of 8190, the last two bytes of the page, is let through
\* (bug)
IsSequenceFileUpToPageEnd(data) ==
    IF Len(data) < PageSize THEN FALSE
    ELSE LET special == u16(data, 16)
         IN IF special = 0 \/ special > PageSize - 2 THEN FALSE
            ELSE u16(data, special) = SequenceMagic

IsSequenceFile(data) ==
    IF Len(data) < PageSize THEN FALSE
    ELSE LET special == u16(data, 16)
         IN IF special = 0 \/ special >= PageSize - 2 THEN FALSE
            ELSE u16(data, special) = SequenceMagic

NoSequenceData ==
    [LastValue |-> [hi |-> 0, lo |-> 0], StartValue |-> [hi |-> 0, lo |-> 0],
     IncrementBy |-> [hi |-> 0, lo |-> 0], MaxValue |-> [hi |-> 0, lo |-> 0],
     MinValue |-> [hi |-> 0, lo |-> 0], CacheValue |-> [hi |-> 0, lo |-> 0],
     IsCycled |-> FALSE, IsCalled |-> FALSE]

SequenceError == [panic |-> FALSE, err |-> TRUE]

SequenceOK(seq) == [panic |-> FALSE, err |-> FALSE, seq |-> seq]

parseSequenceTuple(data) ==
    IF Len(data) < 8 THEN SequenceError
    ELSE LET firstVal == LittleEndianUint32(data, 0)
         IN IF firstVal = 20 \/ firstVal = 21 \/ firstVal = 23
            THEN IF Len(data) < 4 + 48 THEN SequenceError
                 ELSE SequenceOK(
                          [StartValue |-> LittleEndianUint64(data, 4),
                           IncrementBy |-> LittleEndianUint64(data, 12),
                           MaxValue |-> LittleEndianUint64(data, 20),
                           MinValue |-> LittleEndianUint64(data, 28),
                           CacheValue |-> LittleEndianUint64(data, 36),
                           IsCycled |-> data[44 + 1] # 0,
                           LastValue |-> IF Len(data) >= 48 + 9
                                         THEN LittleEndianUint64(data, 48)
                                         ELSE [hi |-> 0, lo |-> 0],
                           IsCalled |-> Len(data) >= 48 + 9 /\ Len(data) > 56
                                        /\ data[56 + 1] # 0])
            ELSE IF Len(data) < 57
            THEN SequenceOK([NoSequenceData EXCEPT
                                 !.LastValue = LittleEndianUint64(data, 0)])
            ELSE SequenceOK(
                     [LastValue |-> LittleEndianUint64(data, 0),
                      StartValue |-> LittleEndianUint64(data, 8),
                      IncrementBy |-> LittleEndianUint64(data, 16),
                      MaxValue |-> LittleEndianUint64(data, 24),
                      MinValue |-> LittleEndianUint64(data, 32),
                      CacheValue |-> LittleEndianUint64(data, 40),
                      IsCycled |-> Len(data) > 56 /\ data[56 + 1] # 0,
                      IsCalled |-> Len(data) > 57 /\ data[57 + 1] # 0])

\* itemPtr & 0x7FFF of the item pointer at byte offset off
ItemPointerOffset(data, off) == u16(data, off) % 32768

\* (itemPtr >> 17) & 0x7FFF
ItemPointerLength(data, off) == u16(data, off + 2) \div 2

\* tupleData[hoff:], a run-time panic when hoff is above the length of the
\* tuple
SequenceDataAfterHeader(tupleData, hoff) ==
    IF hoff > Len(tupleData) THEN Panic
    ELSE parseSequenceTuple(Drop(tupleData, hoff))

ParseSequenceFile(data) ==
    IF Len(data) < PageSize THEN SequenceError
    ELSE LET special == u16(data, 16)
         IN IF special = 0 \/ special >= PageSize - 2 THEN SequenceError
            ELSE IF u16(data, special) # SequenceMagic THEN SequenceError
            ELSE IF u16(data, 12) < headerSize + itemIDSize THEN SequenceError
            ELSE
              LET itemOffset == ItemPointerOffset(data, headerSize)
                  itemLen == ItemPointerLength(data, headerSize)
              IN IF itemOffset = 0 \/ itemLen = 0 \/ itemOffset + itemLen > PageSize
                 THEN SequenceError
                 ELSE LET tupleData == SubSeq(data, itemOffset + 1, itemOffset + itemLen)
                      IN IF Len(tupleData) < 23 THEN SequenceError
                         ELSE LET hoff0 == tupleData[22 + 1]
                                  hoff == IF hoff0 < 23 \/ hoff0 > Len(tupleData)
                                          THEN 24 ELSE hoff0
                              IN SequenceDataAfterHeader(tupleData, hoff)

----------------------------------------------------------------------------
(* Sequence pages written byte by byte.                                    *)

MaxSeqPad == 1

\* the buffer with the bytes written at byte offset off, as far as they fit
Overlay(buf, off, bytes) ==
    IF off >= Len(buf) THEN buf
    ELSE LET fit == IF off + Len(bytes) > Len(buf)
                    THEN SubSeq(bytes, 1, Len(buf) - off) ELSE bytes
         IN SubSeq(buf, 1, off) \o fit \o SubSeq(buf, off + Len(fit) + 1, Len(buf))

\* the four bytes of an item pointer: offset, flags 1, length
ItemPointerBytes(offset, length) ==
    <<offset % 256, ((offset \div 256) % 128) + 128,
      2 * (length % 128), length \div 128>>

\* a tuple of a sequence: 22 bytes of header, the header-offset byte, and the
\* values of the sequence (start 1, increment 2, maximum 9, minimum 1,
\* cache 1, last value 5, called) in the modern or the old layout from byte
\* 24 on, cut or padded with zeros to length bytes
SequenceTuple(hoff, modern, length) ==
    LET n64(v) == LE32(v) \o LE32(0)
        values == IF modern
                  THEN LE32(23) \o n64(1) \o n64(2) \o n64(9) \o n64(1) \o n64(1)
                       \o <<1, 0, 0, 0>> \o n64(5) \o <<1>>
                  ELSE n64(5) \o n64(1) \o n64(2) \o n64(9) \o n64(1) \o n64(1)
                       \o n64(0) \o <<1, 1>>
        bytes == Zeros(22) \o <<hoff>> \o <<0>> \o values
    IN IF length <= Len(bytes) THEN SubSeq(bytes, 1, length)
       ELSE bytes \o Zeros(length - Len(bytes))

\* a file of len bytes: a page header with the given lower and special, the
\* two bytes at the special offset, the first item pointer and the tuple
SequenceFile(len, lower, special, magic, itemOffset, itemLen, tuple) ==
    Overlay(
        Overlay(
            Overlay(Zeros(12) \o LE16(lower) \o LE16(8000) \o LE16(special)
                        \o <<0, 32>> \o Zeros(len - 20),
                    24, ItemPointerBytes(itemOffset, itemLen)),
            itemOffset, tuple),
        special, magic)

\* files for IsSequenceFile: every special offset around the two limits, a
\* right and two wrong magics, files shorter than a page and longer
MagicFiles ==
    {SequenceFile(len, 28, special, magic, 8000, 24, SequenceTuple(24, TRUE, 24)) :
        len \in {100, 8191, 8192, 8292},
        special \in {0, 1, 8100, 8188, 8189, 8190, 8191, 8192},
        magic \in {<<23, 23>>, <<23, 0>>, <<0, 23>>}}

\* files for ParseSequenceFile with the magic in place: item pointers and
\* header offsets in and out of range
TupleFiles ==
    {SequenceFile(8192, lower, 8188, <<23, 23>>, itemOffset, itemLen,
                  SequenceTuple(hoff, modern, itemLen)) :
        lower \in {24, 28}, itemOffset \in {0, 8000, 8100},
        itemLen \in {0, 22, 23, 24, 31, 32, 75, 81, 93},
        hoff \in {0, 23, 24, 24 + MaxSeqPad, 255}, modern \in BOOLEAN}

IsSequenceFileCall ==
    /\ Idle
    /\ \E data \in MagicFiles :
        Called("IsSequenceFile", [data |-> data], IsSequenceFile(data))
    /\ reads' = {}
    /\ UNCHANGED <<files, reader>>

ParseSequenceFileCall ==
    /\ Idle
    /\ \E data \in TupleFiles \cup MagicFiles :
        Called("ParseSequenceFile", [data |-> data], ParseSequenceFile(data))
    /\ reads' = {}
    /\ UNCHANGED <<files, reader>>

InitSequence ==
    /\ files = NoFiles
    /\ reader = NewTOASTReader
    /\ reads = {}
    /\ op = "idle"
    /\ Debug = FALSE
    /\ arg = <<>>
    /\ ret = <<>>

NextSequence ==
    \/ IsSequenceFileCall
    \/ ParseSequenceFileCall
    \/ Return

SpecSequence == InitSequence /\ [][NextSequence]_vars

----------------------------------------------------------------------------
(* Properties of the sequence decoder.                                     *)

\* the special offset in the page header of the file of the call
SpecialOffset == arg.data[17] + 256 * arg.data[18]

\* C25: IsSequenceFile(buf) is true iff buf holds at least one full 8192-byte
\* page, the special offset s of the page header satisfies 0 < s < 8190, and
\* the little-endian 16-bit value at offset s is 0x1717; a buffer shorter
\* than a page yields false.
C25_IsSequenceFileContract ==
    op = "IsSequenceFile" =>
        ret = (/\ Len(arg.data) >= 8192
               /\ 0 < SpecialOffset
               /\ SpecialOffset < 8190
               /\ arg.data[SpecialOffset + 1] = 23
               /\ arg.data[SpecialOffset + 2] = 23)

\* a page with the magic at special offset 8189, the last one that counts,
\* is taken for a sequence
C25_Witness ==
    /\ op = "IsSequenceFile"
    /\ Len(arg.data) = 8192
    /\ SpecialOffset = 8189
    /\ ret = TRUE

\* C28: ParseSequenceFile never faults on out-of-range fields: for every
\* buffer of at least 8192 bytes, whatever the special offset, the first item
\* pointer and the header-offset byte of the tuple hold, it returns a
\* sequence record or an error and reads nothing outside the bytes of the
\* item.
C28_ParseSequenceFileNeverFaults ==
    op = "ParseSequenceFile" /\ Len(arg.data) >= 8192 => ~ret.panic

\* ParseSequenceFile returns a record or an error unless the first item is
\* 23 bytes long with a header-offset byte other than 23
C28_FaultsOnlyOnBareHeader ==
    op = "ParseSequenceFile" /\ ret.panic =>
        /\ arg.data[27] + 256 * arg.data[28] = 2 * 23
        /\ arg.data[((arg.data[25] + 256 * arg.data[26]) % 32768) + 23] # 23

\* C28: a page whose first item is 23 bytes long with header offset 24 has
\* ended ParseSequenceFile in a run-time panic
C28_BareHeaderPanics ==
    /\ op = "ParseSequenceFile"
    /\ Len(arg.data) = 8192
    /\ arg.data[27] + 256 * arg.data[28] = 2 * 23
    /\ arg.data[8000 + 23] = 24
    /\ ret.panic

----------------------------------------------------------------------------
(* Two TOAST readers side by side.  Here reader maps the readers 1 and 2   *)
(* to their records, and every call names the reader it is made on.        *)

ReaderIDs == {1, 2}

\* values for ReadValue: pointers to value 42 of the two TOAST relations and
\* a plain value
CacheValues ==
    {PointerBytes(1, MaxRawSize \div 2, 0, 42, rel) : rel \in {16500, 16501}}
    \cup {<<72, 105>>}

LoadTOASTTableOn ==
    /\ Idle
    /\ \E x \in ReaderIDs, toastRelID \in {16500, 16501},
          data \in {ToastHeap, OtherToastHeap} :
        /\ Called("LoadTOASTTable",
                  [reader |-> x, toastRelID |-> toastRelID, data |-> data], <<>>)
        /\ reader' = [reader EXCEPT
                          ![x] = LoadTOASTTable(reader[x], toastRelID, data)]
    /\ reads' = {}
    /\ UNCHANGED files

LoadTOASTTableFromFileOn ==
    /\ Idle
    /\ \E x \in ReaderIDs, toastRelID \in {16500, 16501} :
        LET loaded == LoadTOASTTableFromFile(reader[x], files, toastRelID)
        IN /\ Called("LoadTOASTTableFromFile",
                     [reader |-> x, toastRelID |-> toastRelID],
                     [err |-> loaded.err])
           /\ reader' = [reader EXCEPT ![x] = loaded.reader]
           /\ reads' = IF reader[x].dataDir = "" THEN {}
                       ELSE {BasePath(reader[x].dbOID, toastRelID)}
           /\ files' = IF reader[x].dataDir = "" THEN files
                       ELSE FilesAfterReadFile(files,
                                               BasePath(reader[x].dbOID, toastRelID))

ReadValueOn ==
    /\ Idle
    /\ \E x \in ReaderIDs, data \in CacheValues :
        /\ \E r \in ReadValue(reader[x], files, data) :
              Called("ReadValue", [reader |-> x, data |-> data], r)
        /\ reader' = [reader EXCEPT
                          ![x] = ReaderAfterReadValue(reader[x], files, data)]
        /\ reads' = ReadValueReads(reader[x], data)
        /\ files' = FilesAfterReads(files, ReadValueReads(reader[x], data))

\* both readers are new: without a data directory, or for a database of the
\* cluster
InitReaders ==
    /\ files \in {IntactCluster,
                  Without(IntactCluster, {BasePath(16384, 16385), BasePath(16384, 16500)})}
    /\ reads = {}
    /\ reader \in [ReaderIDs -> Readers]
    /\ op = "idle"
    /\ Debug = FALSE
    /\ arg = <<>>
    /\ ret = <<>>

NextReaders ==
    \/ LoadTOASTTableOn
    \/ LoadTOASTTableFromFileOn
    \/ ReadValueOn
    \/ Return

SpecReaders == InitReaders /\ [][NextReaders]_vars

\* the TOAST relations in the cache of reader x
Cached(x) == DOMAIN reader[x].chunks

\* the step is a call on reader x that loads relation rel: LoadTOASTTable,
\* or, with the file of rel read, LoadTOASTTableFromFile or a ReadValue of a
\* pointer that names rel
LoadsInto(x, rel) ==
    /\ Idle
    /\ op' \in {"LoadTOASTTable", "LoadTOASTTableFromFile", "ReadValue"}
    /\ arg'.reader = x
    /\ \/ op' = "LoadTOASTTable" /\ arg'.toastRelID = rel
       \/ /\ \/ op' = "LoadTOASTTableFromFile" /\ arg'.toastRelID = rel
             \/ /\ op' = "ReadValue"
                /\ ~ParseTOASTPointer(arg'.data).isnil
                /\ ParseTOASTPointer(arg'.data).ToastRelID = rel
          /\ reader[x].dataDir # ""
          /\ BasePath(reader[x].dbOID, rel) \in DOMAIN files
          /\ BasePath(reader[x].dbOID, rel) \in reads'

\* an entry comes into a cache by a load into that reader only
EntriesComeFromLoads ==
    \A x \in ReaderIDs : \A rel \in Cached(x)' \ Cached(x) : LoadsInto(x, rel)

\* a ReadValue of a pointer to a relation that the reader has in its cache
\* reads no file
CachedIsNotReadAgain ==
    /\ Idle
    /\ op' = "ReadValue"
    /\ ~ParseTOASTPointer(arg'.data).isnil
    /\ ParseTOASTPointer(arg'.data).ToastRelID \in Cached(arg'.reader)
    => reads' = {} /\ files' = files

\* a call on one reader leaves the other readers as they were
OtherReadersUntouched ==
    \A y \in ReaderIDs :
        reader'[y] # reader[y] => Idle /\ op' # "idle" /\ arg'.reader = y

\* C26: the chunk cache of a TOASTReader is populated lazily and per
\* instance: a new reader's cache is empty, the cache of reader X gets an
\* entry for TOAST relation R only by LoadTOASTTable(R) on X or by a
\* ReadValue on X of a pointer naming R with a successful read of the file,
\* a ReadValue on X does not read the file of a cached R again, and no
\* operation on X changes the cache of another reader.
C26_CacheIsLazyAndPerReader ==
    /\ \A x \in ReaderIDs : Cached(x) = {}
    /\ [][EntriesComeFromLoads /\ CachedIsNotReadAgain /\ OtherReadersUntouched]_vars

\* reader 1 has answered a ReadValue of a pointer to relation 16500 from its
\* cache without reading a file, and reader 2, of the same database, has an
\* empty cache
C26_Witness ==
    /\ op = "ReadValue"
    /\ arg.reader = 1
    /\ ~ParseTOASTPointer(arg.data).isnil
    /\ ParseTOASTPointer(arg.data).ToastRelID = 16500
    /\ 16500 \in Cached(1)
    /\ reads = {}
    /\ reader[1].dataDir # ""
    /\ reader[2].dbOID = reader[1].dbOID
    /\ Cached(2) = {}

----------------------------------------------------------------------------
(* The debug toggle.  With Debug set DecodeTuple prints one line for each  *)
(* column it decodes; the program sets the toggle from its -debug flag.    *)

\* the lines DecodeTuple prints: for each column its name, its attribute
\* number and whether it is null
DebugOutput(debug, tuple, columns) ==
    IF ~debug \/ tuple.isnil THEN <<>>
    ELSE IF Len(tuple.Data) = 0 THEN <<>>
    ELSE [i \in 1..Len(columns) |->
             LET num == IF columns[i].Num = 0 THEN i ELSE columns[i].Num
             IN [col |-> columns[i].Name, num |-> num, null |-> IsNull(tuple, num)]]

\* with the toggle set the null columns are printed and left out of the row
\* (bug)
DecodeTupleLosingNullsUnderDebug(debug, tuple, columns) ==
    [row |-> IF debug
             THEN DecodeTuple(tuple,
                              SelectSeq(columns,
                                        LAMBDA c : c.Num = 0 \/ ~IsNull(tuple, c.Num)))
             ELSE DecodeTuple(tuple, columns),
     output |-> DebugOutput(debug, tuple, columns)]

\* DecodeTuple with the toggle at the given value: the row it returns and
\* the lines it prints
DecodeTupleUnderDebug(debug, tuple, columns) ==
    [row |-> DecodeTuple(tuple, columns),
     output |-> DebugOutput(debug, tuple, columns)]

\* the program sets or clears the toggle between calls
SetDebug ==
    /\ Idle
    /\ Debug' = ~Debug
    /\ UNCHANGED <<files, reader, reads, op, arg, ret>>

\* the schemas whose columns carry their attribute numbers
NumberedSchemas ==
    {Schema(k, TRUE) : k \in SeqsUpTo(ColumnKinds, MaxCols)} \cup {ScenarioSchema}

DecodeTupleUnderDebugCall ==
    /\ Idle
    /\ \E tuple \in DecodeInputs, columns \in NumberedSchemas :
        Called("DecodeTuple", [tuple |-> tuple, columns |-> columns],
               DecodeTupleUnderDebug(Debug, tuple, columns))
    /\ reads' = {}
    /\ UNCHANGED <<files, reader>>

InitDebug ==
    /\ files = NoFiles
    /\ reader = NewTOASTReader
    /\ reads = {}
    /\ op = "idle"
    /\ Debug \in BOOLEAN
    /\ arg = <<>>
    /\ ret = <<>>

NextDebug ==
    \/ SetDebug
    \/ DecodeTupleUnderDebugCall
    \/ Return

SpecDebug == InitDebug /\ [][NextDebug]_vars

\* the row of a DecodeTuple call is the row the call returns with the toggle
\* at either value, and lines are printed with the toggle set only
RowIsIndependentOfDebug ==
    op = "DecodeTuple" =>
        /\ \A debug \in BOOLEAN :
               ret.row = DecodeTupleUnderDebug(debug, arg.tuple, arg.columns).row
        /\ ret.output # <<>> => Debug

\* the toggle changes between calls only, by no decoding operation
DecodingLeavesDebug == Debug' # Debug => op = "idle" /\ op' = "idle"

====
